---------------------------- MODULE Spec2Model ----------------------------
(***************************************************************************)
(* moodpattern-tracker: the diary's sentiment scoring and the incremental  *)
(* word-mood correlation model (diary/models.py, diary/signals.py,         *)
(* diary/analysis_utils.py, diary/russian_sentiment.py).                   *)
(*                                                                         *)
(* Numbers.  Python floats are modelled as exact rationals <<n, d>> in     *)
(* lowest terms with d > 0, so every equality below is equality up to the  *)
(* floating-point rounding of the interpreter.                             *)
(*                                                                         *)
(* Text.  A text is a sequence of characters, a character is a string: a   *)
(* Cyrillic lower-case letter is written by its Latin name ("ya", "soft"), *)
(* its upper case in capitals ("YA"), a Latin letter as "lat_g"/"LAT_G",   *)
(* punctuation and the blank as themselves.                                *)
(***************************************************************************)
EXTENDS Integers, Sequences, FiniteSets, Bags, TLC

VARIABLES
  entries,       \* DiaryEntry rows
  keywords,      \* ExtractedKeyword rows
  correlations,  \* MoodCorrelation rows
  obs,           \* history: per (user, word) the update calls applied so far
  procs,         \* in-flight requests, one per worker (SpecConc)
  last,          \* history: the operation that ran last
  saves          \* history: the entry saves made (Spec), the requests begun (SpecConc)

vars == <<entries, keywords, correlations, obs, procs, last, saves>>

------------------------------------------------------------------------------
(* Bounds of the model *)

MaxUpdates == 3    \* update calls in a run of SpecUpd
MaxInc == 2        \* largest occurrence_increment tried in SpecUpd

------------------------------------------------------------------------------
(* Rational arithmetic *)

Abs(x) == IF x < 0 THEN -x ELSE x

RECURSIVE Gcd(_, _)
Gcd(a, b) == IF b = 0 THEN a ELSE Gcd(b, a % b)

Rat(n, d) ==
  LET g == Gcd(Abs(n), Abs(d))
      s == IF d < 0 THEN -1 ELSE 1
  IN  <<(s * n) \div g, (s * d) \div g>>

FromInt(n) == <<n, 1>>
RAdd(x, y) == Rat(x[1] * y[2] + y[1] * x[2], x[2] * y[2])
RSub(x, y) == Rat(x[1] * y[2] - y[1] * x[2], x[2] * y[2])
RMul(x, y) == Rat(x[1] * y[1], x[2] * y[2])
RDiv(x, y) == Rat(x[1] * y[2], x[2] * y[1])
RLe(x, y) == x[1] * y[2] <= y[1] * x[2]
RLt(x, y) == x[1] * y[2] < y[1] * x[2]
RMin(x, y) == IF RLe(x, y) THEN x ELSE y
RMax(x, y) == IF RLe(x, y) THEN y ELSE x

\* max(lo, min(hi, x))
Clamp(lo, hi, x) == RMax(lo, RMin(hi, x))

------------------------------------------------------------------------------
(* Users and the words used by the update specifications *)

Users == {"u1", "u2"}

W_semya == <<"s", "e", "m", "soft", "ya">>
W_otpusk == <<"o", "t", "p", "u", "s", "k">>
W_rabota == <<"r", "a", "b", "o", "t", "a">>

------------------------------------------------------------------------------
(* Word lists of the source *)

\* CATEGORY_KEYWORDS of DiaryEntry._get_category_for_word, in dictionary order
MODEL_CATEGORY_KEYWORDS ==
  <<
    [category |-> "work",
     words |-> {
       <<"r", "a", "b", "o", "t", "a">>, <<"p", "r", "o", "e", "k", "t">>,
       <<"z", "a", "d", "a", "ch", "a">>, <<"d", "e", "d", "l", "a", "j", "n">>}],
    [category |-> "study",
     words |-> {
       <<"u", "ch", "e", "b", "a">>, <<"u", "n", "i", "v", "e", "r", "s", "i", "t", "e", "t">>,
       <<"eh", "k", "z", "a", "m", "e", "n">>, <<"z", "a", "ch", "e", "t">>}],
    [category |-> "family",
     words |-> {
       <<"s", "e", "m", "soft", "ya">>, <<"r", "o", "d", "i", "t", "e", "l", "i">>,
       <<"m", "a", "m", "a">>, <<"p", "a", "p", "a">>}],
    [category |-> "friends",
     words |-> {
       <<"d", "r", "u", "z", "soft", "ya">>, <<"d", "r", "u", "g">>,
       <<"p", "o", "d", "r", "u", "g", "a">>, <<"v", "s", "t", "r", "e", "ch", "a">>}],
    [category |-> "health",
     words |-> {
       <<"z", "d", "o", "r", "o", "v", "soft", "e">>, <<"b", "o", "l", "e", "z", "n", "soft">>,
       <<"v", "r", "a", "ch">>, <<"b", "o", "l", "soft">>}],
    [category |-> "hobby",
     words |-> {
       <<"h", "o", "b", "b", "i">>, <<"s", "p", "o", "r", "t">>, <<"m", "u", "z", "y", "k", "a">>,
       <<"k", "i", "n", "o">>}],
    [category |-> "finance",
     words |-> {
       <<"d", "e", "n", "soft", "g", "i">>, <<"z", "a", "r", "p", "l", "a", "t", "a">>,
       <<"p", "o", "k", "u", "p", "k", "a">>, <<"t", "r", "a", "t", "y">>}],
    [category |-> "rest",
     words |-> {
       <<"o", "t", "d", "y", "h">>, <<"o", "t", "p", "u", "s", "k">>, <<"s", "o", "n">>,
       <<"r", "e", "l", "a", "k", "s">>}]
  >>

\* CATEGORY_KEYWORDS of signals.py, in dictionary order
SIGNAL_CATEGORY_KEYWORDS ==
  <<
    [category |-> "work",
     words |-> {
       <<"r", "a", "b", "o", "t", "a">>, <<"p", "r", "o", "e", "k", "t">>,
       <<"z", "a", "d", "a", "ch", "a">>, <<"d", "e", "d", "l", "a", "j", "n">>,
       <<"n", "a", "ch", "a", "l", "soft", "n", "i", "k">>, <<"k", "o", "l", "l", "e", "g", "a">>,
       <<"o", "f", "i", "s">>, <<"z", "a", "r", "p", "l", "a", "t", "a">>,
       <<"s", "o", "v", "e", "shch", "a", "n", "i", "e">>, <<"o", "t", "ch", "e", "t">>,
       <<"k", "l", "i", "e", "n", "t">>, <<"b", "i", "z", "n", "e", "s">>}],
    [category |-> "study",
     words |-> {
       <<"u", "ch", "e", "b", "a">>, <<"u", "n", "i", "v", "e", "r", "s", "i", "t", "e", "t">>,
       <<"k", "u", "r", "s">>, <<"eh", "k", "z", "a", "m", "e", "n">>,
       <<"z", "a", "ch", "e", "t">>, <<"l", "e", "k", "c", "i", "ya">>,
       <<"p", "r", "e", "p", "o", "d", "a", "v", "a", "t", "e", "l", "soft">>,
       <<"s", "t", "u", "d", "e", "n", "t">>, <<"o", "b", "u", "ch", "e", "n", "i", "e">>,
       <<"z", "n", "a", "n", "i", "ya">>, <<"d", "i", "p", "l", "o", "m">>}],
    [category |-> "family",
     words |-> {
       <<"s", "e", "m", "soft", "ya">>, <<"r", "o", "d", "i", "t", "e", "l", "i">>,
       <<"m", "a", "m", "a">>, <<"p", "a", "p", "a">>, <<"b", "r", "a", "t">>,
       <<"s", "e", "s", "t", "r", "a">>, <<"d", "e", "t", "i">>,
       <<"r", "e", "b", "e", "n", "o", "k">>, <<"m", "u", "zh">>, <<"zh", "e", "n", "a">>,
       <<"b", "a", "b", "u", "sh", "k", "a">>, <<"d", "e", "d", "u", "sh", "k", "a">>}],
    [category |-> "friends",
     words |-> {
       <<"d", "r", "u", "z", "soft", "ya">>, <<"d", "r", "u", "g">>,
       <<"p", "o", "d", "r", "u", "g", "a">>, <<"k", "o", "m", "p", "a", "n", "i", "ya">>,
       <<"v", "s", "t", "r", "e", "ch", "a">>, <<"o", "b", "shch", "e", "n", "i", "e">>,
       <<"r", "a", "z", "g", "o", "v", "o", "r">>,
       <<"v", "e", "ch", "e", "r", "i", "n", "k", "a">>, <<"p", "r", "a", "z", "d", "n", "i", "k">>}],
    [category |-> "health",
     words |-> {
       <<"z", "d", "o", "r", "o", "v", "soft", "e">>, <<"b", "o", "l", "e", "z", "n", "soft">>,
       <<"v", "r", "a", "ch">>, <<"b", "o", "l", "soft">>, <<"l", "e", "ch", "e", "n", "i", "e">>,
       <<"t", "a", "b", "l", "e", "t", "k", "i">>, <<"a", "p", "t", "e", "k", "a">>,
       <<"s", "i", "m", "p", "t", "o", "m", "y">>, <<"d", "i", "a", "g", "n", "o", "z">>,
       <<"b", "o", "l", "soft", "n", "i", "c", "a">>, <<"a", "n", "a", "l", "i", "z", "y">>}],
    [category |-> "hobby",
     words |-> {
       <<"h", "o", "b", "b", "i">>, <<"s", "p", "o", "r", "t">>, <<"m", "u", "z", "y", "k", "a">>,
       <<"k", "i", "n", "o">>, <<"k", "n", "i", "g", "a">>, <<"ch", "t", "e", "n", "i", "e">>,
       <<"r", "i", "s", "o", "v", "a", "n", "i", "e">>,
       <<"p", "r", "o", "g", "r", "a", "m", "m", "i", "r", "o", "v", "a", "n", "i", "e">>,
       <<"p", "u", "t", "e", "sh", "e", "s", "t", "v", "i", "e">>,
       <<"f", "o", "t", "o", "g", "r", "a", "f", "i", "ya">>}],
    [category |-> "finance",
     words |-> {
       <<"d", "e", "n", "soft", "g", "i">>, <<"z", "a", "r", "p", "l", "a", "t", "a">>,
       <<"p", "o", "k", "u", "p", "k", "a">>, <<"t", "r", "a", "t", "y">>,
       <<"eh", "k", "o", "n", "o", "m", "i", "ya">>, <<"b", "yu", "d", "zh", "e", "t">>,
       <<"s", "ch", "e", "t">>, <<"b", "a", "n", "k">>, <<"k", "r", "e", "d", "i", "t">>,
       <<"d", "o", "l", "g">>, <<"i", "n", "v", "e", "s", "t", "i", "c", "i", "i">>}],
    [category |-> "rest",
     words |-> {
       <<"o", "t", "d", "y", "h">>, <<"o", "t", "p", "u", "s", "k">>,
       <<"k", "a", "n", "i", "k", "u", "l", "y">>, <<"v", "y", "h", "o", "d", "n", "y", "e">>,
       <<"s", "o", "n">>, <<"r", "e", "l", "a", "k", "s">>,
       <<"m", "e", "d", "i", "t", "a", "c", "i", "ya">>,
       <<"p", "r", "o", "g", "u", "l", "k", "a">>, <<"p", "a", "r", "k">>,
       <<"p", "r", "i", "r", "o", "d", "a">>, <<"m", "o", "r", "e">>}]
  >>

EXTRA_STOPWORDS ==
  {
    <<"eh", "t", "o">>, <<"v", "o", "t">>, <<"k", "a", "k", "o", "j">>,
    <<"k", "o", "t", "o", "r", "y", "j">>, <<"s", "e", "g", "o", "d", "n", "ya">>,
    <<"z", "a", "v", "t", "r", "a">>, <<"v", "ch", "e", "r", "a">>,
    <<"o", "ch", "e", "n", "soft">>, <<"p", "r", "o", "s", "t", "o">>,
    <<"m", "o", "zh", "n", "o">>, <<"n", "u", "zh", "n", "o">>, <<"b", "u", "d", "e", "t">>,
    <<"e", "s", "t", "soft">>, <<"b", "y", "l">>, <<"b", "y", "l", "a">>, <<"b", "y", "l", "o">>,
    <<"b", "y", "l", "i">>, <<"v", "e", "s", "soft">>, <<"v", "s", "e">>, <<"v", "s", "yo">>,
    <<"v", "s", "e", "g", "o">>, <<"v", "s", "e", "m">>, <<"s", "a", "m">>, <<"s", "a", "m", "a">>,
    <<"s", "a", "m", "o">>, <<"s", "a", "m", "i">>, <<"r", "a", "z">>, <<"d", "v", "a">>,
    <<"t", "r", "i">>, <<"ch", "e", "t", "y", "r", "e">>, <<"p", "ya", "t", "soft">>,
    <<"g", "o", "d">>, <<"g", "o", "d", "a">>, <<"l", "e", "t">>, <<"v", "r", "e", "m", "ya">>,
    <<"ch", "e", "l", "o", "v", "e", "k">>, <<"l", "yu", "d", "i">>,
    <<"zh", "i", "z", "n", "soft">>, <<"d", "e", "n", "soft", "g", "i">>,
    <<"r", "a", "b", "o", "t", "a">>, <<"d", "o", "m">>, <<"g", "o", "r", "o", "d">>,
    <<"s", "t", "r", "a", "n", "a">>, <<"m", "i", "r">>, <<"s", "l", "o", "v", "o">>,
    <<"d", "e", "l", "a">>, <<"r", "u", "k", "i">>, <<"g", "l", "a", "z", "a">>,
    <<"v", "o", "d", "a">>, <<"z", "e", "m", "l", "ya">>, <<"n", "e", "b", "o">>,
    <<"s", "o", "l", "n", "c", "e">>, <<"l", "u", "n", "a">>, <<"z", "v", "e", "z", "d", "a">>,
    <<"v", "o", "z", "d", "u", "h">>, <<"o", "g", "r", "o", "m", "n", "y", "j">>,
    <<"m", "a", "l", "e", "n", "soft", "k", "i", "j">>, <<"b", "o", "l", "soft", "sh", "o", "j">>,
    <<"h", "o", "r", "o", "sh", "i", "j">>, <<"p", "l", "o", "h", "o", "j">>,
    <<"n", "o", "v", "y", "j">>, <<"s", "t", "a", "r", "y", "j">>,
    <<"m", "o", "l", "o", "d", "o", "j">>, <<"k", "r", "a", "s", "i", "v", "y", "j">>,
    <<"s", "i", "l", "soft", "n", "y", "j">>, <<"s", "l", "a", "b", "y", "j">>,
    <<"u", "m", "n", "y", "j">>, <<"g", "l", "u", "p", "y", "j">>,
    <<"b", "o", "g", "a", "t", "y", "j">>, <<"b", "e", "d", "n", "y", "j">>,
    <<"s", "ch", "a", "s", "t", "l", "i", "v", "y", "j">>,
    <<"g", "r", "u", "s", "t", "n", "y", "j">>, <<"v", "e", "s", "e", "l", "y", "j">>,
    <<"s", "e", "r", "soft", "e", "z", "n", "y", "j">>, <<"v", "a", "zh", "n", "y", "j">>,
    <<"n", "u", "zh", "n", "y", "j">>, <<"v", "o", "z", "m", "o", "zh", "n", "y", "j">>,
    <<"n", "e", "o", "b", "h", "o", "d", "i", "m", "y", "j">>, <<"z", "a", "p", "i", "s", "i">>,
    <<"z", "a", "p", "i", "s", "soft">>, <<"z", "a", "p", "i", "s", "e", "j">>,
    <<"k", "l", "yu", "ch", "e", "v", "y", "e">>, <<"k", "l", "yu", "ch", "e", "v", "y", "h">>,
    <<"k", "o", "r", "r", "e", "l", "ya", "c", "i", "j">>,
    <<"k", "o", "r", "r", "e", "l", "ya", "c", "i", "i">>,
    <<"n", "a", "s", "t", "r", "o", "e", "n", "i", "e">>,
    <<"n", "a", "s", "t", "r", "o", "e", "n", "i", "ya">>, <<"a", "n", "a", "l", "i", "z">>,
    <<"a", "n", "a", "l", "i", "z", "a">>, <<"s", "i", "s", "t", "e", "m", "a">>,
    <<"s", "i", "s", "t", "e", "m", "y">>, <<"p", "r", "o", "e", "k", "t">>,
    <<"p", "r", "o", "e", "k", "t", "a">>, <<"d", "a", "n", "n", "y", "e">>,
    <<"d", "a", "n", "n", "y", "h">>,
    <<"p", "o", "l", "soft", "z", "o", "v", "a", "t", "e", "l", "soft">>,
    <<"p", "o", "l", "soft", "z", "o", "v", "a", "t", "e", "l", "ya">>,
    <<"s", "e", "r", "v", "i", "s">>, <<"s", "e", "r", "v", "i", "s", "a">>,
    <<"d", "n", "e", "v", "n", "i", "k">>, <<"d", "n", "e", "v", "n", "i", "k", "a">>,
    <<"m", "o", "d", "e", "l", "soft">>, <<"m", "o", "d", "e", "l", "i">>,
    <<"p", "r", "o", "g", "r", "a", "m", "m", "a">>,
    <<"p", "r", "o", "g", "r", "a", "m", "m", "y">>, <<"t", "e", "s", "t">>,
    <<"t", "e", "s", "t", "a">>, <<"t", "e", "s", "t", "i", "r", "o", "v", "a", "n", "i", "e">>,
    <<"t", "e", "s", "t", "i", "r", "o", "v", "a", "n", "i", "ya">>
  }

\* stop_words of extract_keywords
KEYWORD_STOP_WORDS ==
  {
    <<"eh", "t", "o">>, <<"v", "o", "t">>, <<"k", "a", "k", "o", "j">>,
    <<"k", "o", "t", "o", "r", "y", "j">>, <<"s", "e", "g", "o", "d", "n", "ya">>,
    <<"z", "a", "v", "t", "r", "a">>, <<"v", "ch", "e", "r", "a">>,
    <<"o", "ch", "e", "n", "soft">>, <<"p", "r", "o", "s", "t", "o">>,
    <<"m", "o", "zh", "n", "o">>, <<"n", "u", "zh", "n", "o">>, <<"b", "u", "d", "e", "t">>,
    <<"e", "s", "t", "soft">>, <<"b", "y", "l">>, <<"b", "y", "l", "a">>, <<"b", "y", "l", "o">>,
    <<"b", "y", "l", "i">>, <<"v", "e", "s", "soft">>, <<"v", "s", "e">>, <<"v", "s", "yo">>,
    <<"s", "a", "m">>, <<"s", "a", "m", "a">>, <<"s", "a", "m", "o">>, <<"s", "a", "m", "i">>,
    <<"r", "a", "z">>, <<"d", "v", "a">>, <<"t", "r", "i">>, <<"g", "o", "d">>,
    <<"g", "o", "d", "a">>, <<"l", "e", "t">>
  }

\* _load_stopwords()
ANALYZER_STOPWORDS ==
  {
    <<"eh", "t", "o">>, <<"v", "o", "t">>, <<"k", "a", "k", "o", "j">>,
    <<"k", "o", "t", "o", "r", "y", "j">>, <<"s", "e", "g", "o", "d", "n", "ya">>,
    <<"z", "a", "v", "t", "r", "a">>, <<"v", "ch", "e", "r", "a">>,
    <<"p", "r", "o", "s", "t", "o">>, <<"m", "o", "zh", "n", "o">>, <<"n", "u", "zh", "n", "o">>,
    <<"b", "u", "d", "e", "t">>, <<"e", "s", "t", "soft">>, <<"b", "y", "l">>,
    <<"b", "y", "l", "a">>, <<"b", "y", "l", "o">>, <<"b", "y", "l", "i">>,
    <<"v", "e", "s", "soft">>, <<"v", "s", "e">>, <<"v", "s", "yo">>, <<"v", "s", "e", "g", "o">>,
    <<"v", "s", "e", "m">>, <<"s", "a", "m">>, <<"s", "a", "m", "a">>, <<"s", "a", "m", "o">>,
    <<"s", "a", "m", "i">>, <<"r", "a", "z">>, <<"d", "v", "a">>, <<"t", "r", "i">>,
    <<"g", "o", "d">>, <<"g", "o", "d", "a">>, <<"l", "e", "t">>, <<"k", "a", "k">>,
    <<"t", "a", "k">>, <<"t", "a", "m">>, <<"z", "d", "e", "s", "soft">>, <<"t", "u", "t">>,
    <<"g", "d", "e">>, <<"k", "u", "d", "a">>, <<"o", "t", "k", "u", "d", "a">>,
    <<"p", "o", "ch", "e", "m", "u">>, <<"z", "a", "ch", "e", "m">>,
    <<"s", "k", "o", "l", "soft", "k", "o">>, <<"k", "o", "g", "d", "a">>, <<"ch", "t", "o">>,
    <<"ch", "t", "o", "b", "y">>, <<"e", "s", "l", "i">>
  }

\* _get_default_words('positive_ru.txt')
DEFAULT_POSITIVE ==
  {
    <<"h", "o", "r", "o", "sh">>, <<"o", "t", "l", "i", "ch", "n">>,
    <<"p", "r", "e", "k", "r", "a", "s", "n">>,
    <<"z", "a", "m", "e", "ch", "a", "t", "e", "l", "soft", "n">>,
    <<"v", "e", "l", "i", "k", "o", "l", "e", "p", "n">>,
    <<"s", "ch", "a", "s", "t", "l", "i", "v">>, <<"r", "a", "d", "o", "s", "t">>,
    <<"v", "e", "s", "e", "l">>, <<"d", "o", "v", "o", "l", "e", "n">>,
    <<"u", "s", "p", "e", "sh", "n">>
  }

\* _get_default_words('negative_ru.txt')
DEFAULT_NEGATIVE ==
  {
    <<"p", "l", "o", "h">>, <<"u", "zh", "a", "s", "n">>,
    <<"o", "t", "v", "r", "a", "t", "i", "t", "e", "l", "soft", "n">>,
    <<"g", "r", "u", "s", "t", "n">>, <<"p", "e", "ch", "a", "l", "soft", "n">>, <<"z", "l">>,
    <<"s", "e", "r", "d", "i", "t">>, <<"b", "o", "l", "soft", "n">>, <<"u", "s", "t", "a", "l">>,
    <<"p", "r", "o", "b", "l", "e", "m">>
  }

\* _get_default_words('intensifiers_ru.txt')
DEFAULT_INTENSIFIERS ==
  {
    <<"o", "ch", "e", "n", "soft">>, <<"s", "i", "l", "soft", "n", "o">>,
    <<"k", "r", "a", "j", "n", "e">>, <<"ch", "r", "e", "z", "v", "y", "ch", "a", "j", "n", "o">>
  }

\* _get_default_words('negations_ru.txt')
DEFAULT_NEGATIONS ==
  {
    <<"n", "e">>, <<"n", "i">>, <<"n", "e", "t">>, <<"b", "e", "z">>
  }

\* endings of stem_word, in list order
ENDINGS ==
  <<
    <<"y", "j">>, <<"i", "j">>, <<"o", "j">>, <<"a", "ya">>, <<"ya", "ya">>, <<"o", "e">>,
    <<"e", "e">>, <<"y", "e">>, <<"i", "e">>, <<"o", "s", "t", "soft">>, <<"a", "c", "i", "ya">>,
    <<"e", "n", "i", "e">>, <<"a", "n", "soft", "e">>, <<"s", "t", "v", "o">>, <<"i", "z", "m">>,
    <<"n", "n", "o">>, <<"e", "n", "n", "o">>, <<"a", "l", "soft", "n", "o">>
  >>

\* stopwords.words('russian') of the NLTK corpus
RUSSIAN_STOPWORDS ==
  {
    <<"i">>, <<"v">>, <<"v", "o">>, <<"n", "e">>, <<"ch", "t", "o">>, <<"o", "n">>, <<"n", "a">>,
    <<"ya">>, <<"s">>, <<"s", "o">>, <<"k", "a", "k">>, <<"a">>, <<"t", "o">>, <<"v", "s", "e">>,
    <<"o", "n", "a">>, <<"t", "a", "k">>, <<"e", "g", "o">>, <<"n", "o">>, <<"d", "a">>,
    <<"t", "y">>, <<"k">>, <<"u">>, <<"zh", "e">>, <<"v", "y">>, <<"z", "a">>, <<"b", "y">>,
    <<"p", "o">>, <<"t", "o", "l", "soft", "k", "o">>, <<"e", "e">>, <<"m", "n", "e">>,
    <<"b", "y", "l", "o">>, <<"v", "o", "t">>, <<"o", "t">>, <<"m", "e", "n", "ya">>,
    <<"e", "shch", "e">>, <<"n", "e", "t">>, <<"o">>, <<"i", "z">>, <<"e", "m", "u">>,
    <<"t", "e", "p", "e", "r", "soft">>, <<"k", "o", "g", "d", "a">>, <<"d", "a", "zh", "e">>,
    <<"n", "u">>, <<"v", "d", "r", "u", "g">>, <<"l", "i">>, <<"e", "s", "l", "i">>,
    <<"u", "zh", "e">>, <<"i", "l", "i">>, <<"n", "i">>, <<"b", "y", "t", "soft">>,
    <<"b", "y", "l">>, <<"n", "e", "g", "o">>, <<"d", "o">>, <<"v", "a", "s">>,
    <<"n", "i", "b", "u", "d", "soft">>, <<"o", "p", "ya", "t", "soft">>, <<"u", "zh">>,
    <<"v", "a", "m">>, <<"v", "e", "d", "soft">>, <<"t", "a", "m">>, <<"p", "o", "t", "o", "m">>,
    <<"s", "e", "b", "ya">>, <<"n", "i", "ch", "e", "g", "o">>, <<"e", "j">>,
    <<"m", "o", "zh", "e", "t">>, <<"o", "n", "i">>, <<"t", "u", "t">>, <<"g", "d", "e">>,
    <<"e", "s", "t", "soft">>, <<"n", "a", "d", "o">>, <<"n", "e", "j">>, <<"d", "l", "ya">>,
    <<"m", "y">>, <<"t", "e", "b", "ya">>, <<"i", "h">>, <<"ch", "e", "m">>,
    <<"b", "y", "l", "a">>, <<"s", "a", "m">>, <<"ch", "t", "o", "b">>, <<"b", "e", "z">>,
    <<"b", "u", "d", "t", "o">>, <<"ch", "e", "g", "o">>, <<"r", "a", "z">>,
    <<"t", "o", "zh", "e">>, <<"s", "e", "b", "e">>, <<"p", "o", "d">>,
    <<"b", "u", "d", "e", "t">>, <<"zh">>, <<"t", "o", "g", "d", "a">>, <<"k", "t", "o">>,
    <<"eh", "t", "o", "t">>, <<"t", "o", "g", "o">>, <<"p", "o", "t", "o", "m", "u">>,
    <<"eh", "t", "o", "g", "o">>, <<"k", "a", "k", "o", "j">>, <<"s", "o", "v", "s", "e", "m">>,
    <<"n", "i", "m">>, <<"z", "d", "e", "s", "soft">>, <<"eh", "t", "o", "m">>,
    <<"o", "d", "i", "n">>, <<"p", "o", "ch", "t", "i">>, <<"m", "o", "j">>, <<"t", "e", "m">>,
    <<"ch", "t", "o", "b", "y">>, <<"n", "e", "e">>, <<"s", "e", "j", "ch", "a", "s">>,
    <<"b", "y", "l", "i">>, <<"k", "u", "d", "a">>, <<"z", "a", "ch", "e", "m">>,
    <<"v", "s", "e", "h">>, <<"n", "i", "k", "o", "g", "d", "a">>, <<"m", "o", "zh", "n", "o">>,
    <<"p", "r", "i">>, <<"n", "a", "k", "o", "n", "e", "c">>, <<"d", "v", "a">>, <<"o", "b">>,
    <<"d", "r", "u", "g", "o", "j">>, <<"h", "o", "t", "soft">>, <<"p", "o", "s", "l", "e">>,
    <<"n", "a", "d">>, <<"b", "o", "l", "soft", "sh", "e">>, <<"t", "o", "t">>,
    <<"ch", "e", "r", "e", "z">>, <<"eh", "t", "i">>, <<"n", "a", "s">>, <<"p", "r", "o">>,
    <<"v", "s", "e", "g", "o">>, <<"n", "i", "h">>, <<"k", "a", "k", "a", "ya">>,
    <<"m", "n", "o", "g", "o">>, <<"r", "a", "z", "v", "e">>, <<"t", "r", "i">>,
    <<"eh", "t", "u">>, <<"m", "o", "ya">>, <<"v", "p", "r", "o", "ch", "e", "m">>,
    <<"h", "o", "r", "o", "sh", "o">>, <<"s", "v", "o", "yu">>, <<"eh", "t", "o", "j">>,
    <<"p", "e", "r", "e", "d">>, <<"i", "n", "o", "g", "d", "a">>, <<"l", "u", "ch", "sh", "e">>,
    <<"ch", "u", "t", "soft">>, <<"t", "o", "m">>, <<"n", "e", "l", "soft", "z", "ya">>,
    <<"t", "a", "k", "o", "j">>, <<"i", "m">>, <<"b", "o", "l", "e", "e">>,
    <<"v", "s", "e", "g", "d", "a">>, <<"k", "o", "n", "e", "ch", "n", "o">>, <<"v", "s", "yu">>,
    <<"m", "e", "zh", "d", "u">>
  }

\* ALL_STOPWORDS = RUSSIAN_STOPWORDS.union(EXTRA_STOPWORDS)
ALL_STOPWORDS == RUSSIAN_STOPWORDS \cup EXTRA_STOPWORDS

------------------------------------------------------------------------------
(* Optional values: None is the empty tuple, a present integer v is <<v>>, *)
(* and a present float is its rational <<n, d>>.                           *)

None == <<>>
Some(v) == <<v>>
IsNone(x) == x = <<>>

------------------------------------------------------------------------------
(* The MoodCorrelation table *)

\* MoodCorrelation.objects.filter(user=u, keyword__word=w)
CorrRows(rows, u, w) == {r \in rows : r.user = u /\ r.word = w}

\* The database's unique index on (user, keyword): may a row for (u, w) be
\* inserted into rows?
UniqueTogetherBroken(rows, u, w) == TRUE
UniqueTogether(rows, u, w) == CorrRows(rows, u, w) = {}

\* The range written on the correlation_score field.
CORR_MIN == -10
CORR_MAX == 10

------------------------------------------------------------------------------
(* DiaryEntry._update_correlation, models.py *)

MODEL_CLAMP == 10

ModelClampMixed(x) == Clamp(FromInt(-1), FromInt(1), x)
ModelClamp(x) == Clamp(FromInt(-MODEL_CLAMP), FromInt(MODEL_CLAMP), x)

\* The new (score, count) of an existing row r after an observation of
\* mood_score s with occurrence_increment inc.
ModelCombine(r, s, inc) ==
  LET total_occurrences == r.count + inc
      old_weight == Rat(r.count, total_occurrences)
      new_weight == Rat(inc, total_occurrences)
      new_correlation == RAdd(RMul(r.score, old_weight), RMul(s, new_weight))
  IN  [score |-> ModelClamp(new_correlation), count |-> total_occurrences]

------------------------------------------------------------------------------
(* update_mood_correlation, signals.py *)

SIGNAL_CLAMP == 1

SignalClamp(x) == Clamp(FromInt(-SIGNAL_CLAMP), FromInt(SIGNAL_CLAMP), x)

SignalCombine(r, s, inc) ==
  LET total_occurrences == r.count + inc
      old_weight == RDiv(FromInt(r.count), RMul(FromInt(total_occurrences), Rat(3, 2)))
      new_weight == RDiv(FromInt(inc), RMul(FromInt(total_occurrences), Rat(1, 2)))
      new_correlation ==
        RDiv(RAdd(RMul(r.score, old_weight), RMul(s, new_weight)),
             RAdd(old_weight, new_weight))
  IN  [score |-> SignalClamp(new_correlation), count |-> total_occurrences]

------------------------------------------------------------------------------
(* Keywords *)

\* for category, keywords in table.items(): if word in keywords: return category
CategoryIn(table, word) ==
  LET hits == {k \in DOMAIN table : word \in table[k].words}
  IN  IF hits = {} THEN "other"
      ELSE table[CHOOSE i \in hits : \A j \in hits : i <= j].category

\* DiaryEntry._get_category_for_word
ModelCategory(word) == CategoryIn(MODEL_CATEGORY_KEYWORDS, word)

\* signals.get_category_for_word
SignalCategory(word) == CategoryIn(SIGNAL_CATEGORY_KEYWORDS, word)

\* update_or_create in its place: the category is written each time
KeywordUpdateOrCreate(kws, word, category) ==
  {k \in kws : k.word /= word} \cup {[word |-> word, category |-> category]}

\* ExtractedKeyword.objects.get_or_create(word=word, defaults={'category': category}):
\* the keyword table afterwards
KeywordGetOrCreate(kws, word, category) ==
  IF \E k \in kws : k.word = word THEN kws
  ELSE kws \cup {[word |-> word, category |-> category]}

------------------------------------------------------------------------------
(* Primary keys of MoodCorrelation.  The database hands out a key that no  *)
(* live row has and no request in flight holds.  Only equality of keys is  *)
(* observed, so a key is written <<user, word, n>>, n the smallest number  *)
(* that keeps it new.                                                      *)

HeldIds == UNION {procs[p].held : p \in DOMAIN procs}

FreshId(rows, u, w) ==
  LET used == {r.id : r \in rows} \cup HeldIds
  IN  <<u, w, CHOOSE i \in 1..(Cardinality(used) + 1) : <<u, w, i>> \notin used>>

------------------------------------------------------------------------------
(* The two incremental updates as whole calls.  A database state is the    *)
(* record [entries, keywords, correlations].                               *)

Db == [entries |-> entries, keywords |-> keywords, correlations |-> correlations]

SetDb(d) ==
  /\ entries' = d.entries
  /\ keywords' = d.keywords
  /\ correlations' = d.correlations

\* The row MoodCorrelation.objects.get_or_create creates from its defaults.
NewCorrelationNoCount(rows, u, w, s, inc) ==
  [id |-> FreshId(rows, u, w), user |-> u, word |-> w, score |-> s, count |-> 0]
NewCorrelation(rows, u, w, s, inc) ==
  [id |-> FreshId(rows, u, w), user |-> u, word |-> w, score |-> s, count |-> inc]

\* correlation.correlation_score = ...; correlation.occurrence_count = ...
WithValues(r, nv) == [r EXCEPT !.score = nv.score, !.count = nv.count]

\* MoodCorrelation.objects.get_or_create(...) followed by the update of a
\* row that was not created, with the combination rule of the caller.
CorrelationUpsert(rows, u, w, s, inc, fn) ==
  IF CorrRows(rows, u, w) = {}
  THEN rows \cup {NewCorrelation(rows, u, w, s, inc)}
  ELSE LET r == CHOOSE x \in CorrRows(rows, u, w) : TRUE
           nv == IF fn = "model" THEN ModelCombine(r, s, inc)
                 ELSE SignalCombine(r, s, inc)
       IN  (rows \ {r}) \cup {WithValues(r, nv)}

\* DiaryEntry._update_correlation(word, mood_score, occurrence_increment)
ModelUpdateCorrelation(d, u, w, s, inc) ==
  [d EXCEPT !.keywords = KeywordGetOrCreate(d.keywords, w, ModelCategory(w)),
            !.correlations = CorrelationUpsert(d.correlations, u, w, s, inc, "model")]

\* update_mood_correlation(user, keyword, mood_score, occurrence_increment)
UpdateMoodCorrelation(d, u, w, s, inc) ==
  [d EXCEPT !.correlations = CorrelationUpsert(d.correlations, u, w, s, inc, "signal")]

\* The keyword lookup of analyze_diary_entry and the update it then makes.
SignalUpdateCorrelation(d, u, w, s, inc) ==
  UpdateMoodCorrelation(
    [d EXCEPT !.keywords = KeywordGetOrCreate(d.keywords, w, SignalCategory(w))],
    u, w, s, inc)

------------------------------------------------------------------------------
(* SpecUpd: the update functions called one after another *)

\* Scores analyze_text_sentiment hands to the update of save()
UpdScores == {FromInt(2), FromInt(8)}

\* Polarities of TextBlob, which both updates receive
PolScores == {Rat(1, 5), Rat(4, 5)}

UpdWords == {W_semya}
UpdPairs == Users \X UpdWords
Incs == 1..MaxInc

Workers == {"p1", "p2"}
Idle == [pc |-> "idle", held |-> {}]

InitDb ==
  /\ entries = EmptyBag
  /\ keywords = {}
  /\ correlations = {}

Init ==
  /\ InitDb
  /\ obs = [p \in UpdPairs |-> <<>>]
  /\ procs = [p \in Workers |-> Idle]
  /\ last = [op |-> "init"]
  /\ saves = 0

RECURSIVE SumLen(_, _)
SumLen(f, dom) ==
  IF dom = {} THEN 0
  ELSE LET x == CHOOSE y \in dom : TRUE IN Len(f[x]) + SumLen(f, dom \ {x})

UpdCalls == SumLen(obs, UpdPairs)

Observe(fn, u, w, s, inc) ==
  obs' = [obs EXCEPT ![<<u, w>>] = Append(@, [fn |-> fn, score |-> s, inc |-> inc])]

\* one call of DiaryEntry._update_correlation
ModelUpdate(u, w, s, inc) ==
  /\ UpdCalls < MaxUpdates
  /\ SetDb(ModelUpdateCorrelation(Db, u, w, s, inc))
  /\ Observe("model", u, w, s, inc)
  /\ UNCHANGED <<procs, last, saves>>

\* one call of update_mood_correlation from analyze_diary_entry
SignalUpdate(u, w, s, inc) ==
  /\ UpdCalls < MaxUpdates
  /\ SetDb(SignalUpdateCorrelation(Db, u, w, s, inc))
  /\ Observe("signal", u, w, s, inc)
  /\ UNCHANGED <<procs, last, saves>>

NextUpd ==
  \/ \E p \in UpdPairs, s \in UpdScores \cup PolScores, inc \in Incs :
       ModelUpdate(p[1], p[2], s, inc)
  \/ \E p \in UpdPairs, s \in PolScores, inc \in Incs :
       SignalUpdate(p[1], p[2], s, inc)

SpecUpd == Init /\ [][NextUpd]_vars

RECURSIVE SumWeights(_)
SumWeights(h) == IF h = <<>> THEN 0 ELSE Head(h).inc + SumWeights(Tail(h))

RECURSIVE SumWeighted(_)
SumWeighted(h) ==
  IF h = <<>> THEN FromInt(0)
  ELSE RAdd(RMul(Head(h).score, FromInt(Head(h).inc)), SumWeighted(Tail(h)))

WeightedMean(h) == RDiv(SumWeighted(h), FromInt(SumWeights(h)))

\* The row of a pair, which is unique in SpecUpd
RowOf(p) == CHOOSE r \in CorrRows(correlations, p[1], p[2]) : TRUE

\* C1: after any sequence of updates of one (user, word) pair, whichever
\* update function made them, the score is the weighted mean of the observed
\* scores and the count is the sum of the weights.
C1_WeightedMeanEveryPath ==
  \A p \in UpdPairs :
    obs[p] /= <<>> =>
      /\ CorrRows(correlations, p[1], p[2]) /= {}
      /\ RowOf(p).score = WeightedMean(obs[p])
      /\ RowOf(p).count = SumWeights(obs[p])

\* C4: a word observed N times with one score s, each time with increment
\* 1, has score s and count N.
C4_Convergence ==
  \A p \in UpdPairs :
    (/\ obs[p] /= <<>>
     /\ \A i \in 1..Len(obs[p]) :
          obs[p][i].inc = 1 /\ obs[p][i].score = obs[p][1].score)
    => /\ CorrRows(correlations, p[1], p[2]) /= {}
       /\ RowOf(p).score = obs[p][1].score
       /\ RowOf(p).count = Len(obs[p])

C4_Witness ==
  \E p \in UpdPairs :
    /\ Len(obs[p]) >= 3
    /\ \A i \in 1..Len(obs[p]) :
         obs[p][i].inc = 1 /\ obs[p][i].score = obs[p][1].score
    /\ \E i, j \in 1..Len(obs[p]) : obs[p][i].fn = "model" /\ obs[p][j].fn = "signal"
    /\ RowOf(p).count = Len(obs[p])

\* C7: both update paths map the same (old score, old count, new score,
\* increment) to the same new record.
C7_PathsAgree ==
  \A r \in correlations, s \in PolScores, inc \in Incs :
    ModelCombine(r, s, inc) = SignalCombine(r, s, inc)

------------------------------------------------------------------------------
(* The texts entries are written with *)

\* 'семья семья хорошо'
T_family_fine ==
  <<"s", "e", "m", "soft", "ya", " ", "s", "e", "m", "soft", "ya", " ",
    "h", "o", "r", "o", "sh", "o">>
\* 'семья good'
T_family_good == <<"s", "e", "m", "soft", "ya", " ", "lat_g", "lat_o", "lat_o", "lat_d">>
\* 'отпуск', shorter than the ten characters the entry form asks for
T_vacation == <<"o", "t", "p", "u", "s", "k">>

\* the texts of the entries of Spec
Texts == {T_family_fine, T_family_good, T_vacation}

\* 'хорошо'
T_fine == <<"h", "o", "r", "o", "sh", "o">>
\* 'не хорошо'
T_not_fine == <<"n", "e", " ", "h", "o", "r", "o", "sh", "o">>
\* 'нет хорошо'
T_no_fine == <<"n", "e", "t", " ", "h", "o", "r", "o", "sh", "o">>
\* 'очень хорошо'
T_very_fine == <<"o", "ch", "e", "n", "soft", " ", "h", "o", "r", "o", "sh", "o">>
\* 'абв абв абв'
T_abv == <<"a", "b", "v", " ", "a", "b", "v", " ", "a", "b", "v">>
\* 'отпуск awful'
T_vacation_awful ==
  <<"o", "t", "p", "u", "s", "k", " ", "lat_a", "lat_w", "lat_f", "lat_u", "lat_l">>
\* 'хорошо!!'
T_fine_loud == <<"h", "o", "r", "o", "sh", "o", "!", "!">>
\* 'плохо...'
T_bad_dots == <<"p", "l", "o", "h", "o", ".", ".", ".">>

\* 'ни хорошо'
T_nor_fine == <<"n", "i", " ", "h", "o", "r", "o", "sh", "o">>
\* 'без хорошо'
T_without_fine == <<"b", "e", "z", " ", "h", "o", "r", "o", "sh", "o">>

\* 'абв абв!!'
T_abv_loud == <<"a", "b", "v", " ", "a", "b", "v", "!", "!">>

\* the texts scored in SpecScore
ScoreTexts ==
  {T_fine, T_not_fine, T_no_fine, T_very_fine, T_abv, T_vacation_awful, T_fine_loud,
   T_bad_dots, T_family_good, T_nor_fine, T_without_fine, T_abv_loud}

\* 'работа хорошо'
T_work_fine ==
  <<"r", "a", "b", "o", "t", "a", " ", "h", "o", "r", "o", "sh", "o">>
\* 'работа плохо'
T_work_bad == <<"r", "a", "b", "o", "t", "a", " ", "p", "l", "o", "h", "o">>

\* the texts of the entries of SpecWork
WorkTexts == {T_work_fine, T_work_bad}

KnownTexts == Texts \cup ScoreTexts \cup WorkTexts

------------------------------------------------------------------------------
(* Characters *)

\* [а-я] in alphabet order, and ё, which lies outside that range
CYR_LOWER ==
  <<"a", "b", "v", "g", "d", "e", "zh", "z", "i", "j", "k", "l", "m", "n", "o", "p",
    "r", "s", "t", "u", "f", "h", "c", "ch", "sh", "shch", "hard", "y", "soft", "eh",
    "yu", "ya", "yo">>
CYR_UPPER ==
  <<"A", "B", "V", "G", "D", "E", "ZH", "Z", "I", "J", "K", "L", "M", "N", "O", "P",
    "R", "S", "T", "U", "F", "H", "C", "CH", "SH", "SHCH", "HARD", "Y", "SOFT", "EH",
    "YU", "YA", "YO">>
LAT_LOWER ==
  <<"lat_a", "lat_b", "lat_c", "lat_d", "lat_e", "lat_f", "lat_g", "lat_h", "lat_i",
    "lat_j", "lat_k", "lat_l", "lat_m", "lat_n", "lat_o", "lat_p", "lat_q", "lat_r",
    "lat_s", "lat_t", "lat_u", "lat_v", "lat_w", "lat_x", "lat_y", "lat_z">>
LAT_UPPER ==
  <<"LAT_A", "LAT_B", "LAT_C", "LAT_D", "LAT_E", "LAT_F", "LAT_G", "LAT_H", "LAT_I",
    "LAT_J", "LAT_K", "LAT_L", "LAT_M", "LAT_N", "LAT_O", "LAT_P", "LAT_Q", "LAT_R",
    "LAT_S", "LAT_T", "LAT_U", "LAT_V", "LAT_W", "LAT_X", "LAT_Y", "LAT_Z">>
DIGITS == {"0", "1", "2", "3", "4", "5", "6", "7", "8", "9"}

Range(s) == {s[i] : i \in DOMAIN s}

\* the character class [а-яё]
CyrLetter == Range(CYR_LOWER)
UpperChars == Range(CYR_UPPER) \cup Range(LAT_UPPER)

\* the character class \w
WordChar ==
  Range(CYR_LOWER) \cup Range(CYR_UPPER) \cup Range(LAT_LOWER) \cup Range(LAT_UPPER)
    \cup DIGITS \cup {"_"}

\* the character class \s
SpaceChar == {" "}

\* str.lower() on one character
LowerChar(c) ==
  IF \E i \in DOMAIN CYR_UPPER : CYR_UPPER[i] = c
  THEN CYR_LOWER[CHOOSE i \in DOMAIN CYR_UPPER : CYR_UPPER[i] = c]
  ELSE IF \E i \in DOMAIN LAT_UPPER : LAT_UPPER[i] = c
  THEN LAT_LOWER[CHOOSE i \in DOMAIN LAT_UPPER : LAT_UPPER[i] = c]
  ELSE c

\* text.lower()
Lower(text) == [i \in DOMAIN text |-> LowerChar(text[i])]

\* The numbers of a finite set in increasing order
Ascending(S) ==
  [k \in 1..Cardinality(S) |-> CHOOSE i \in S : Cardinality({j \in S : j < i}) = k - 1]

\* The maximal runs of characters of one class, in text order; cls maps a
\* character to its class, "none" for a character of no class.
Runs(text, cls) ==
  LET K(i) == cls[text[i]]
      starts == {i \in DOMAIN text : K(i) /= "none" /\ (i = 1 \/ K(i - 1) /= K(i))}
      EndOf(i) == CHOOSE j \in i..Len(text) :
                    /\ \A k \in i..j : K(k) = K(i)
                    /\ (j = Len(text) \/ K(j + 1) /= K(i))
      order == Ascending(starts)
  IN  [k \in DOMAIN order |-> SubSeq(text, order[k], EndOf(order[k]))]

\* text.split()
Split(text) ==
  Runs(text, [c \in Range(text) |-> IF c \in SpaceChar THEN "none" ELSE "word"])

\* text.strip()
Strip(text) ==
  LET inked == {i \in DOMAIN text : text[i] \notin SpaceChar}
  IN  IF inked = {} THEN <<>>
      ELSE SubSeq(text, CHOOSE i \in inked : \A j \in inked : i <= j,
                        CHOOSE i \in inked : \A j \in inked : j <= i)

------------------------------------------------------------------------------
(* Keyword extraction *)

\* re.sub(r'[^\w\s]', ' ', text) and re.sub(r'\d+', ' ', text): afterwards
\* the text holds letters, "_" and blanks only.
Cleaned(text) ==
  [i \in DOMAIN text |->
     IF text[i] \notin WordChar \cup SpaceChar THEN " "
     ELSE IF text[i] \in DIGITS THEN " "
     ELSE text[i]]

\* re.findall(r'\b[а-яё]{lo,hi}\b', text) on a cleaned text: the maximal runs of
\* word characters that are lo to hi letters of [а-яё] and nothing else.
CyrWords(text, lo, hi) ==
  LET IsWord(run) ==
        /\ Len(run) >= lo
        /\ Len(run) <= hi
        /\ \A i \in DOMAIN run : run[i] \in CyrLetter
  IN  SelectSeq(Split(text), IsWord)

KW_MIN_LEN == 4
KW_MAX_LEN == 12
MW_MIN_LEN == 3
MW_MAX_LEN == 15
MW_MIN_MEANINGFUL == 4

\* analysis_utils.extract_keywords
extract_keywords(text) ==
  LET words == CyrWords(Cleaned(Lower(text)), KW_MIN_LEN, KW_MAX_LEN)
      Keep(w) == w \notin KEYWORD_STOP_WORDS /\ Len(w) >= KW_MIN_LEN
  IN  SelectSeq(words, Keep)

\* signals.extract_meaningful_words; the hyphen test never fires, the hyphens
\* being blanks by then
extract_meaningful_words(text) ==
  LET words == CyrWords(Cleaned(Lower(text)), MW_MIN_LEN, MW_MAX_LEN)
      Keep(w) ==
        /\ w \notin ALL_STOPWORDS
        /\ Len(w) >= MW_MIN_MEANINGFUL
        /\ ~ \E i \in DOMAIN w : w[i] = "-"
  IN  SelectSeq(words, Keep)

RECURSIVE Distinct(_)
\* the keys of Counter(words), in insertion order
Distinct(words) ==
  IF words = <<>> THEN <<>>
  ELSE LET rest == Distinct(SubSeq(words, 1, Len(words) - 1))
           w == words[Len(words)]
       IN  IF \E i \in DOMAIN rest : rest[i] = w THEN rest ELSE Append(rest, w)

\* Counter(words)[w]
CountOf(words, w) == Cardinality({i \in DOMAIN words : words[i] = w})

\* Counter(words).items(): the pairs (word, count) in insertion order
CounterItems(words) ==
  LET ks == Distinct(words)
  IN  [i \in DOMAIN ks |-> [word |-> ks[i], count |-> CountOf(words, ks[i])]]



------------------------------------------------------------------------------
(* AdvancedRussianSentimentAnalyzer, russian_sentiment.py *)

PUNCT == {"!", "?", ".", ",", ";", ":"}
HEARTS == {"heart_black", "heart_white", "heart_red", "vs16", "hearts_two", "heart_sparkle"}
POSITIVE_EMOJI == {"emo_smile", "emo_joy", "emo_rofl", "emo_hearteyes", "emo_smilinghearts"}
NEGATIVE_EMOJI == {"emo_cry", "emo_sob", "emo_pensive", "emo_disappointed", "emo_angry"}

AllChars ==
  WordChar \cup SpaceChar \cup PUNCT \cup {"-"} \cup HEARTS \cup POSITIVE_EMOJI
    \cup NEGATIVE_EMOJI

\* len(re.findall(chars{n,}, text)) for a character class chars
CountRuns(text, chars, n) ==
  LET cls == [c \in AllChars |-> IF c \in chars THEN "in" ELSE "none"]
      Long(run) == Len(run) >= n
  IN  Len(SelectSeq(Runs(text, cls), Long))

\* re.sub(r'\s+', ' ', text)
CollapseSpaces(s) ==
  LET kept == {i \in DOMAIN s : ~(s[i] \in SpaceChar /\ i > 1 /\ s[i - 1] \in SpaceChar)}
      order == Ascending(kept)
  IN  [k \in DOMAIN order |-> IF s[order[k]] \in SpaceChar THEN " " ELSE s[order[k]]]

\* preprocess_text
preprocess_text(text) ==
  LET lowered == Lower(text)
      unified == [i \in DOMAIN lowered |-> IF lowered[i] = "yo" THEN "e" ELSE lowered[i]]
  IN  CollapseSpaces(unified)

\* The lexicon of the analyzer: the word list files are not part of the
\* sources, so each list is the built-in default _load_wordlist falls back to.
positive_words == DEFAULT_POSITIVE
negative_words == DEFAULT_NEGATIVE
intensifiers == DEFAULT_INTENSIFIERS
negations == DEFAULT_NEGATIONS

TOKEN_MIN_LEN == 2

\* AdvancedRussianSentimentAnalyzer.tokenize
tokenize(text) ==
  LET cls == [c \in AllChars |->
                IF c \in WordChar THEN "word" ELSE IF c \in PUNCT THEN "punct" ELSE "none"]
      Matches(run) == run[1] \in PUNCT \/ \A i \in DOMAIN run : run[i] \in CyrLetter
      Keep(t) == t \notin ANALYZER_STOPWORDS /\ Len(t) > TOKEN_MIN_LEN
  IN  SelectSeq(SelectSeq(Runs(text, cls), Matches), Keep)

EndsWith(w, e) == Len(w) >= Len(e) /\ SubSeq(w, Len(w) - Len(e) + 1, Len(w)) = e

\* sub in w, for strings
Contains(w, sub) ==
  \E k \in 1..(Len(w) - Len(sub) + 1) : SubSeq(w, k, k + Len(sub) - 1) = sub

STEM_MIN_LEN == 4

\* for ending in endings: if word.endswith(ending): return word[:-len(ending)]
StripFirstEnding(word, endings) ==
  LET hits == {k \in DOMAIN endings : EndsWith(word, endings[k])}
  IN  IF hits = {} THEN word
      ELSE LET k == CHOOSE i \in hits : \A j \in hits : i <= j
           IN  SubSeq(word, 1, Len(word) - Len(endings[k]))

\* stem_word
stem_word(word) == IF Len(word) < STEM_MIN_LEN THEN word ELSE StripFirstEnding(word, ENDINGS)

\* stemmed in words or any(w in stemmed for w in words)
InLexicon(stemmed, words) == stemmed \in words \/ \E w \in words : Contains(stemmed, w)

\* self.weights
WEIGHT_POSITIVE == FromInt(1)
WEIGHT_NEGATIVE == FromInt(-1)
WEIGHT_INTENSIFIER == Rat(3, 2)
WEIGHT_NEGATION == FromInt(-1)
LONG_WORD_BONUS == Rat(11, 10)
LONG_WORD_LEN == 6

\* The weight of a stemmed token: positive, negative or none
LexiconWeight(stemmed) ==
  IF InLexicon(stemmed, positive_words) THEN WEIGHT_POSITIVE
  ELSE IF InLexicon(stemmed, negative_words) THEN WEIGHT_NEGATIVE
  ELSE FromInt(0)

\* token_score of a token with the weight base under a multiplier
TokenScore(token, base, multiplier) ==
  RMul(IF Len(token) > LONG_WORD_LEN THEN RMul(base, LONG_WORD_BONUS) ELSE base, multiplier)

RECURSIVE Walk(_, _, _, _)

\* The token at i is scored with the weight base and the loop goes on.
WalkScored(tokens, i, score, n, multiplier, base) ==
  Walk(tokens, i + 1, RAdd(score, TokenScore(tokens[i], base, multiplier)),
       IF base = FromInt(0) THEN n ELSE n + 1)

\* The token at i is the one to score.
WalkToken(tokens, i, score, n, multiplier) ==
  WalkScored(tokens, i, score, n, multiplier, LexiconWeight(stem_word(tokens[i])))

\* After the intensifier test: a negation that has a token after it turns
\* the multiplier round and is stepped over.
WalkNegation(tokens, i, score, n, multiplier) ==
  IF tokens[i] \in negations /\ i + 1 <= Len(tokens)
  THEN WalkToken(tokens, i + 1, score, n, RMul(multiplier, WEIGHT_NEGATION))
  ELSE WalkToken(tokens, i, score, n, multiplier)

\* The while loop of analyze_sentiment from index i on: the final score and
\* the number of sentiment words.  An intensifier that has a token after it
\* sets the multiplier and is stepped over.
Walk(tokens, i, score, n) ==
  IF i > Len(tokens) THEN [score |-> score, n |-> n]
  ELSE IF tokens[i] \in intensifiers /\ i + 1 <= Len(tokens)
  THEN WalkNegation(tokens, i + 1, score, n, WEIGHT_INTENSIFIER)
  ELSE WalkNegation(tokens, i, score, n, FromInt(1))

\* self.emotional_patterns, applied to the text analyze_sentiment passes on
PATTERN_LENGTH_WORDS == 50
PATTERN_LENGTH_CAP == 2

_analyze_patterns(text) ==
  LET pattern_score ==
        RAdd(RMul(FromInt(CountRuns(text, {"!"}, 2)), Rat(13, 10)),
        RAdd(RMul(FromInt(CountRuns(text, {"?"}, 2)), Rat(-1, 2)),
        RAdd(RMul(FromInt(CountRuns(text, {"."}, 3)), Rat(-7, 10)),
        RAdd(RMul(FromInt(CountRuns(text, UpperChars, 4)), Rat(4, 5)),
        RAdd(RMul(FromInt(CountRuns(text, HEARTS, 1)), Rat(6, 5)),
        RAdd(RMul(FromInt(CountRuns(text, POSITIVE_EMOJI, 1)), Rat(3, 2)),
             RMul(FromInt(CountRuns(text, NEGATIVE_EMOJI, 1)), Rat(-3, 2))))))))
      words_count == Len(Split(text))
      length_factor == RMin(FromInt(PATTERN_LENGTH_CAP), Rat(words_count, PATTERN_LENGTH_WORDS))
  IN  IF words_count > 0 THEN RMul(pattern_score, length_factor) ELSE pattern_score

\* round(x, digits) for k = 10^digits, ties to even
RoundTo(x, k) ==
  LET num == x[1] * k
      q == num \div x[2]
      twice == 2 * (num - q * x[2])
      m == IF twice < x[2] THEN q
           ELSE IF twice > x[2] THEN q + 1
           ELSE IF q % 2 = 0 THEN q ELSE q + 1
  IN  Rat(m, k)

SCORE_MAX == 10
ANALYZER_MIN_TEXT == 3

\* normalized_score: the token total walked and the pattern score added to it,
\* averaged over the sentiment words and scaled, 0 without a sentiment word
NormalizedScore(walked, pattern_score) ==
  IF walked.n > 0
  THEN RMul(RDiv(RAdd(walked.score, pattern_score), FromInt(walked.n)), FromInt(10))
  ELSE FromInt(0)

\* analyze_sentiment from the token list on
ScoreOfTokens(text, tokens) ==
  IF tokens = <<>> THEN FromInt(0)
  ELSE RoundTo(Clamp(FromInt(-SCORE_MAX), FromInt(SCORE_MAX),
                     NormalizedScore(Walk(tokens, 1, FromInt(0), 0),
                                     _analyze_patterns(text))), 100)

\* analyze_sentiment from the preprocessed text on
ScoreOfText(text) == ScoreOfTokens(text, tokenize(text))

\* AdvancedRussianSentimentAnalyzer.analyze_sentiment: the score it returns
analyze_sentiment(raw) ==
  IF Len(Strip(raw)) < ANALYZER_MIN_TEXT THEN FromInt(0)
  ELSE ScoreOfText(preprocess_text(raw))

------------------------------------------------------------------------------
(* TextBlob.  The polarity TextBlob(text).sentiment.polarity of the library *)
(* is a number of [-1, 1] computed from the English words of the text: the  *)
(* mean polarity of the words its lexicon knows, 0.0 when it knows none.    *)

E_good == <<"lat_g", "lat_o", "lat_o", "lat_d">>
E_awful == <<"lat_a", "lat_w", "lat_f", "lat_u", "lat_l">>

TextBlobLexicon == {[word |-> E_good, polarity |-> Rat(7, 10)],
                    [word |-> E_awful, polarity |-> FromInt(-1)]}

RECURSIVE SumPolarity(_)
SumPolarity(ws) ==
  IF ws = <<>> THEN FromInt(0)
  ELSE RAdd((CHOOSE e \in TextBlobLexicon : e.word = Head(ws)).polarity,
            SumPolarity(Tail(ws)))

TextBlobPolarity(text) ==
  LET cls == [c \in AllChars |-> IF c \in Range(LAT_LOWER) THEN "lat" ELSE "none"]
      Known(w) == \E e \in TextBlobLexicon : e.word = w
      known == SelectSeq(Runs(Lower(text), cls), Known)
  IN  IF known = <<>> THEN FromInt(0)
      ELSE RDiv(SumPolarity(known), FromInt(Len(known)))

------------------------------------------------------------------------------
(* The analyses of the texts of KnownTexts, computed once; any other text is *)
(* analysed when it is met.                                                *)

KeywordsTable == [t \in KnownTexts |-> extract_keywords(t)]
Keywords(t) == IF t \in KnownTexts THEN KeywordsTable[t] ELSE extract_keywords(t)

MeaningfulWordsTable == [t \in KnownTexts |-> extract_meaningful_words(t)]
MeaningfulWords(t) ==
  IF t \in KnownTexts THEN MeaningfulWordsTable[t] ELSE extract_meaningful_words(t)

RussianScoreTable == [t \in KnownTexts |-> analyze_sentiment(t)]
RussianScore(t) == IF t \in KnownTexts THEN RussianScoreTable[t] ELSE analyze_sentiment(t)

PolarityTable == [t \in KnownTexts |-> TextBlobPolarity(t)]
Polarity(t) == IF t \in KnownTexts THEN PolarityTable[t] ELSE TextBlobPolarity(t)

------------------------------------------------------------------------------
(* analyze_text_sentiment, analysis_utils.py *)

\* Weights of the Russian analyzer, of TextBlob, of the text and of the
\* user's own mood value
RUSSIAN_WEIGHT == Rat(4, 5)
ENGLISH_WEIGHT == Rat(1, 5)
TEXT_WEIGHT == Rat(7, 10)
USER_WEIGHT == Rat(3, 10)

\* max(-10.0, min(10.0, x))
FinalClamp(x) == Clamp(FromInt(-SCORE_MAX), FromInt(SCORE_MAX), x)

\* The except clause: return user_mood_value if user_mood_value is not None else 0
FallbackTenfold(user_mood_value) ==
  IF IsNone(user_mood_value) THEN FromInt(0) ELSE FromInt(10 * user_mood_value[1])
Fallback(user_mood_value) ==
  IF IsNone(user_mood_value) THEN FromInt(0) ELSE FromInt(user_mood_value[1])

\* combined_score = russian_score * 0.8 + english_score * 0.2
CombinedScore(russian_score, english_score) ==
  RAdd(RMul(russian_score, RUSSIAN_WEIGHT), RMul(english_score, ENGLISH_WEIGHT))

\* combined_score = combined_score * 0.7 + user_mood_value * 0.3, when the
\* user's value is given
WithUserValue(combined_score, user_mood_value) ==
  IF IsNone(user_mood_value) THEN combined_score
  ELSE RAdd(RMul(combined_score, TEXT_WEIGHT),
            RMul(FromInt(user_mood_value[1]), USER_WEIGHT))

\* analyze_text_sentiment(text, user_mood_value).  user_mood_value is None or
\* <<v>>.  analyzerFails: analyze_russian_sentiment raises; blobFails:
\* TextBlob raises.
analyze_text_sentiment(text, user_mood_value, analyzerFails, blobFails) ==
  IF analyzerFails
  THEN Fallback(user_mood_value)
  ELSE FinalClamp(RoundTo(
         WithUserValue(
           CombinedScore(RussianScore(text),
                         IF blobFails THEN FromInt(0)
                         ELSE RMul(Polarity(text), FromInt(10))),
           user_mood_value), 10))

------------------------------------------------------------------------------
(* DiaryEntry rows and DiaryEntry.save, models.py *)

Tags == {"excellent", "good", "neutral", "bad", "terrible"}

\* DiaryEntry.MOOD_VALUES.get(tag, 0)
MoodValue(tag) ==
  CASE tag = "excellent" -> 10
    [] tag = "good" -> 5
    [] tag = "neutral" -> 0
    [] tag = "bad" -> -5
    [] tag = "terrible" -> -10
    [] OTHER -> 0

\* Truth value of an optional integer
Truthy(v) == ~IsNone(v) /\ v[1] /= 0

SAVE_MIN_TEXT == 10

\* The table of entries is a bag of rows [user, text, tag, value, mood_score,
\* word_count]: no operation modelled reads an entry's key or its dates, and
\* two entries may agree on every field.

\* DiaryEntry.objects.filter(user=u)
UserEntries(es, u) ==
  LET mine == {e \in BagToSet(es) : e.user = u}
  IN  [e \in mine |-> es[e]]

RECURSIVE EntryList(_)
\* The rows of a query one after another.  Meta.ordering lists them newest
\* first; the sums and sets computed from them do not depend on the order.
EntryList(es) ==
  IF es = EmptyBag THEN <<>>
  ELSE LET e == CHOOSE x \in BagToSet(es) : TRUE
       IN  <<e>> \o EntryList(es (-) SetToBag({e}))

RECURSIVE MostCommonAcc(_, _)
MostCommonAcc(items, n) ==
  IF n = 0 \/ items = <<>> THEN <<>>
  ELSE LET i == CHOOSE k \in DOMAIN items :
                  /\ \A j \in DOMAIN items : items[j].count <= items[k].count
                  /\ \A j \in 1..(k - 1) : items[j].count < items[k].count
           rest == [j \in 1..(Len(items) - 1) |-> IF j < i THEN items[j] ELSE items[j + 1]]
       IN  <<items[i]>> \o MostCommonAcc(rest, n - 1)

\* Counter(words).most_common(n)
MostCommon(words, n) == MostCommonAcc(CounterItems(words), n)

SIGNIFICANT_MIN == 2
TOP_WORDS == 5

\* significant_words of analyze_diary_entry
SignificantWords(words) ==
  LET Repeated(it) == it.count >= SIGNIFICANT_MIN
      repeated == SelectSeq(CounterItems(words), Repeated)
  IN  IF repeated = <<>> /\ words /= <<>> THEN MostCommon(words, TOP_WORDS) ELSE repeated

RECURSIVE SignalLoop(_, _, _, _)
\* for word, count in significant_words: get_or_create the keyword, then
\* update_mood_correlation(instance.user, keyword, mood_score, count)
SignalLoop(d, u, items, s) ==
  IF items = <<>> THEN d
  ELSE SignalLoop(SignalUpdateCorrelation(d, u, Head(items).word, s, Head(items).count),
                  u, Tail(items), s)

\* The post_save receiver analyze_diary_entry for the saved row e: the
\* database afterwards and the mood_score the instance then carries.
\* blobFails: TextBlob raises, and the receiver's except clause ends it.
analyze_diary_entry(d, e, blobFails) ==
  IF blobFails THEN [db |-> d, mood_score |-> e.mood_score]
  ELSE
    LET mood_score == Polarity(e.text)
        stored == [e EXCEPT !.mood_score = mood_score, !.word_count = Len(Split(e.text))]
        d1 == [d EXCEPT !.entries = (@ (-) SetToBag({e})) (+) SetToBag({stored})]
        meaningful_words == MeaningfulWords(e.text)
    IN  [db |-> SignalLoop(d1, e.user, SignificantWords(meaningful_words), mood_score),
         mood_score |-> mood_score]

RECALC_MIN_ENTRIES == 3
RECALC_MIN_OCCURRENCES == 2
RECALC_EVERY == 5

RECURSIVE AddWords(_, _, _)
\* for word in ws: the word's statistics gain the entry's score
AddWords(stats, ws, score) ==
  IF ws = <<>> THEN stats
  ELSE LET w == Head(ws)
           old == IF w \in DOMAIN stats THEN stats[w] ELSE [mood_scores |-> <<>>, count |-> 0]
           new == [mood_scores |-> Append(old.mood_scores, score), count |-> old.count + 1]
       IN  AddWords([x \in DOMAIN stats \cup {w} |-> IF x = w THEN new ELSE stats[x]],
                    Tail(ws), score)

\* set(words): each word of the entry once
CountedEveryTime(words) == words
CountedOnce(words) == Distinct(words)

RECURSIVE WordStats(_, _)
\* word_stats after the loop over the entries
WordStats(es, stats) ==
  IF es = <<>> THEN stats
  ELSE IF IsNone(Head(es).mood_score) THEN WordStats(Tail(es), stats)
  ELSE WordStats(Tail(es),
                 AddWords(stats, CountedOnce(MeaningfulWords(Head(es).text)),
                          Head(es).mood_score))

RECURSIVE SumSeq(_)
SumSeq(xs) == IF xs = <<>> THEN FromInt(0) ELSE RAdd(Head(xs), SumSeq(Tail(xs)))

\* the threshold of the creation loop
Frequent(st) == st.count >= RECALC_MIN_OCCURRENCES

\* avg_mood
AvgMoodSum(st) == SumSeq(st.mood_scores)
AvgMood(st) == RDiv(SumSeq(st.mood_scores), FromInt(Len(st.mood_scores)))

\* The correlations the creation loop is to create: (word, avg_mood, count)
\* for each word of word_stats that passes the threshold
PlannedRows(stats) ==
  {[word |-> w, score |-> AvgMood(stats[w]), count |-> stats[w].count] :
     w \in {x \in DOMAIN stats : Frequent(stats[x])}}

\* One turn of the creation loop: ExtractedKeyword.objects.get_or_create and
\* MoodCorrelation.objects.create
CreateCorrelation(d, u, pr) ==
  [d EXCEPT !.keywords = KeywordGetOrCreate(@, pr.word, SignalCategory(pr.word)),
            !.correlations = @ \cup {[id |-> FreshId(d.correlations, u, pr.word),
                                       user |-> u, word |-> pr.word,
                                       score |-> pr.score, count |-> pr.count]}]

RECURSIVE CreateLoop(_, _, _)
\* for word, stats in word_stats.items(): the database after the loop
CreateLoop(d, u, todo) ==
  IF todo = {} THEN d
  ELSE LET pr == CHOOSE x \in todo : TRUE
       IN  CreateLoop(CreateCorrelation(d, u, pr), u, todo \ {pr})

\* the gate after the deletion
TooFewEntries(es) == BagCardinality(es) < RECALC_MIN_ENTRIES

RECURSIVE AccumulateLoop(_, _, _)
\* the planned rows folded into the rows already there
AccumulateLoop(d, u, todo) ==
  IF todo = {} THEN d
  ELSE LET pr == CHOOSE x \in todo : TRUE
       IN  AccumulateLoop(ModelUpdateCorrelation(d, u, pr.word, pr.score, pr.count),
                          u, todo \ {pr})

\* a recalculation that keeps the old rows and updates them
recalculate_on_top(d, u) ==
  LET es == UserEntries(d.entries, u)
  IN  IF TooFewEntries(es) THEN d
      ELSE AccumulateLoop(d, u, PlannedRows(WordStats(EntryList(es), <<>>)))
\* signals.recalculate_user_correlations(user)
recalculate_user_correlations(d, u) ==
  LET deleted == [d EXCEPT !.correlations = {r \in @ : r.user /= u}]
      es == UserEntries(d.entries, u)
      stats == WordStats(EntryList(es), <<>>)
  IN  IF TooFewEntries(es) THEN deleted
      ELSE CreateLoop(deleted, u, PlannedRows(stats))

\* The post_save receiver recalculate_all_correlations
recalculate_all_correlations(d, u) ==
  LET user_entries_count == BagCardinality(UserEntries(d.entries, u))
  IN  IF user_entries_count >= RECALC_EVERY /\ user_entries_count % RECALC_EVERY = 0
      THEN recalculate_user_correlations(d, u)
      ELSE d

RECURSIVE ModelLoop(_, _, _, _)
\* for word, count in word_counts.items(): self._update_correlation(word, score, count)
ModelLoop(d, u, items, s) ==
  IF items = <<>> THEN d
  ELSE ModelLoop(
         IF Head(items).count >= 1
         THEN ModelUpdateCorrelation(d, u, Head(items).word, s, Head(items).count)
         ELSE d,
         u, Tail(items), s)

\* Step 1 of save(): the numeric mood value
ValueToSave(inst) ==
  IF inst.tag /= "" /\ ~Truthy(inst.value) THEN Some(MoodValue(inst.tag)) ELSE inst.value

\* Step 3 of save(): the sentiment score
ScoreToSave(inst, user_mood_value, blobFails) ==
  IF inst.text /= <<>> /\ Len(Strip(inst.text)) >= SAVE_MIN_TEXT
  THEN analyze_text_sentiment(inst.text, user_mood_value, FALSE, blobFails)
  ELSE inst.mood_score

\* The fields super().save() writes
RowToSave(inst, user_mood_value, blobFails) ==
  [inst EXCEPT !.value = user_mood_value,
               !.word_count = IF inst.text /= <<>> THEN Len(Split(inst.text)) ELSE 0,
               !.mood_score = ScoreToSave(inst, user_mood_value, blobFails)]

\* Step 4 of save(): the keywords of the text and their correlations, with
\* the mood_score the instance carries after the receivers
KeywordStep(d, row, mood_score) ==
  IF row.text /= <<>> /\ ~IsNone(mood_score)
  THEN ModelLoop(d, row.user, CounterItems(Keywords(row.text)), mood_score)
  ELSE d

\* The second receiver and step 4, after analyze_diary_entry has returned
AfterAnalysis(analysed, row) ==
  KeywordStep(recalculate_all_correlations(analysed.db, row.user), row, analysed.mood_score)

\* super().save(): the row is written and post_save runs its receivers in
\* the order they were connected; then step 4
WriteRow(d, row, old, blobFails) ==
  AfterAnalysis(
    analyze_diary_entry([d EXCEPT !.entries = (@ (-) SetToBag(old)) (+) SetToBag({row})],
                        row, blobFails),
    row)

\* DiaryEntry.save() of an instance: inst holds the fields of the instance as
\* the caller left them; old: the rows the instance was loaded from, none for
\* a new entry.
Save(d, inst, old, blobFails) ==
  WriteRow(d, RowToSave(inst, ValueToSave(inst), blobFails), old, blobFails)

------------------------------------------------------------------------------
(* Spec: entry saves, deletions and recalculations, one request at a time *)

MaxSaves == 2    \* entry saves in a run of Spec

EntryTags == {"good"}

\* DiaryEntry(user=u, text=text, user_mood_tag=tag)
NewInstance(u, text, tag) ==
  [user |-> u, text |-> text, tag |-> tag,
   value |-> None, mood_score |-> None, word_count |-> 0]

\* A new entry is saved: create_entry of views.py, the admin, a script.
CreateEntry(u, text, tag, blobFails) ==
  /\ saves < MaxSaves
  /\ SetDb(Save(Db, NewInstance(u, text, tag), {}, blobFails))
  /\ saves' = saves + 1
  /\ last' = [op |-> "create", user |-> u]
  /\ UNCHANGED <<obs, procs>>

\* edit_entry of views.py: the form sets text and user_mood_tag on the stored
\* instance and saves it.
EditEntry(e, text, tag, blobFails) ==
  /\ saves < MaxSaves
  /\ SetDb(Save(Db, [e EXCEPT !.text = text, !.tag = tag], {e}, blobFails))
  /\ saves' = saves + 1
  /\ last' = [op |-> "edit", user |-> e.user]
  /\ UNCHANGED <<obs, procs>>

\* a deletion that takes the correlations of the entry's user with it
DeleteEntryCascading(e) ==
  /\ entries' = entries (-) SetToBag({e})
  /\ correlations' = {r \in correlations : r.user /= e.user}
  /\ last' = [op |-> "delete", user |-> e.user]
  /\ UNCHANGED <<keywords, obs, procs, saves>>

\* delete_entry of views.py
DeleteEntry(e) ==
  /\ entries' = entries (-) SetToBag({e})
  /\ last' = [op |-> "delete", user |-> e.user]
  /\ UNCHANGED <<keywords, correlations, obs, procs, saves>>

\* recalculate_user_correlations(user), called on its own; the history
\* tells a run that follows a run for the same user from a first one
Recalculate(u) ==
  /\ SetDb(recalculate_user_correlations(Db, u))
  /\ last' = [op |-> "recalculate", user |-> u,
              run |-> IF last.op = "recalculate" /\ last.user = u THEN 2 ELSE 1]
  /\ UNCHANGED <<obs, procs, saves>>

RECURSIVE SavedTimes(_, _, _)
\* The database after n saves of new entries with the fields of inst
SavedTimes(d, inst, n) ==
  IF n = 0 THEN d ELSE SavedTimes(Save(d, inst, {}, FALSE), inst, n - 1)

EmptyDb == [entries |-> EmptyBag, keywords |-> {}, correlations |-> {}]

\* The database of a diary in use: one user has written RECALC_EVERY - 1
\* entries, so that the next one sets off the periodic recalculation.
DiaryInUse == SavedTimes(EmptyDb, NewInstance("u1", T_family_good, "good"), RECALC_EVERY - 1)

InitSpec ==
  /\ obs = [p \in UpdPairs |-> <<>>]
  /\ procs = [p \in Workers |-> Idle]
  /\ last = [op |-> "init"]
  /\ saves = 0
  /\ \E d \in {EmptyDb, DiaryInUse} :
       /\ entries = d.entries
       /\ keywords = d.keywords
       /\ correlations = d.correlations

Next ==
  \/ \E u \in Users, text \in Texts, tag \in EntryTags, blobFails \in BOOLEAN :
       CreateEntry(u, text, tag, blobFails)
  \/ \E e \in BagToSet(entries), text \in Texts, tag \in EntryTags, blobFails \in BOOLEAN :
       EditEntry(e, text, tag, blobFails)
  \/ \E e \in BagToSet(entries) : DeleteEntry(e)
  \/ \E u \in Users : Recalculate(u)

Spec == InitSpec /\ [][Next]_vars









------------------------------------------------------------------------------
(* Properties of Spec *)

\* The user's MoodCorrelation rows as (word, score, count)
UserCorrelations(rows, u) ==
  {[word |-> r.word, score |-> r.score, count |-> r.count] : r \in {x \in rows : x.user = u}}

\* C6: in every reachable state the score of every correlation lies in the
\* closed range [-10, 10]: on creation, after an incremental update and after
\* a full recalculation.
C6_ScoreInRange ==
  \A r \in correlations :
    RLe(FromInt(CORR_MIN), r.score) /\ RLe(r.score, FromInt(CORR_MAX))

\* A recalculation has just left a row with a score other than 0 while
\* another user holds a row, updated at least once, above the handler's scale.
C6_Witness ==
  /\ last.op = "recalculate"
  /\ \E r \in correlations : r.user = last.user /\ r.score /= FromInt(0)
  /\ \E q \in correlations :
       q.user /= last.user /\ q.count >= 3 /\ RLt(FromInt(SIGNAL_CLAMP), q.score)

\* C8: in every reachable state every correlation has occurrence_count >= 1,
\* whether an incremental update or a full recalculation created it.
C8_CountAtLeastOne == \A r \in correlations : r.count >= 1

\* Rows made by a recalculation beside rows made by the updates of a save
C8_Witness ==
  /\ last.op = "recalculate"
  /\ UserCorrelations(correlations, last.user) /= {}
  /\ \E q \in correlations : q.user /= last.user /\ q.count = 1

\* The user's entries with a sentiment score, one after another
Qualifying(es, u) ==
  LET Scored(e) == ~IsNone(e.mood_score)
  IN  SelectSeq(EntryList(UserEntries(es, u)), Scored)

\* C9: recalculate(user) for a user with fewer than 3 scored entries is a
\* no-op: the user's correlations after the call are those before it.
C9_NoOpBelowGate ==
  [][\A u \in Users :
       (Recalculate(u) /\ Len(Qualifying(entries, u)) < RECALC_MIN_ENTRIES)
         => UserCorrelations(correlations', u) = UserCorrelations(correlations, u)]_vars

\* The scored entries of the user in which the word occurs
QualifyingWith(es, u, w) ==
  LET Has(e) == \E i \in DOMAIN MeaningfulWords(e.text) : MeaningfulWords(e.text)[i] = w
  IN  SelectSeq(Qualifying(es, u), Has)

\* What the claim asks of a recalculation: one record per word of at least 2
\* scored entries, with the mean of their scores and their number.
ExpectedCorrelations(es, u) ==
  LET ws == UNION {Range(MeaningfulWords(e.text)) : e \in BagToSet(UserEntries(es, u))}
      Q(w) == QualifyingWith(es, u, w)
      Mean(w) == RDiv(SumSeq([i \in DOMAIN Q(w) |-> Q(w)[i].mood_score]), FromInt(Len(Q(w))))
  IN  {[word |-> w, score |-> Mean(w), count |-> Len(Q(w))] :
         w \in {x \in ws : Len(Q(x)) >= RECALC_MIN_OCCURRENCES}}

\* C10: after recalculate(user) has proceeded, the user's correlations are
\* exactly one record per word that occurs in at least 2 distinct scored
\* entries, its score the mean of those entries' scores and its count their
\* number, an entry counted once however often it repeats the word; no other
\* word has a record.
C10_RecalculationResult ==
  (/\ last.op = "recalculate"
   /\ ~TooFewEntries(UserEntries(entries, last.user)))
  => /\ UserCorrelations(correlations, last.user) = ExpectedCorrelations(entries, last.user)
     /\ Cardinality({r \in correlations : r.user = last.user})
          = Cardinality(ExpectedCorrelations(entries, last.user))

\* A recalculation has proceeded over an entry that repeats a word, an entry
\* without a score and three more entries.
C10_Witness ==
  /\ last.op = "recalculate"
  /\ ~TooFewEntries(UserEntries(entries, last.user))
  /\ \E e \in BagToSet(UserEntries(entries, last.user)) :
       ~IsNone(e.mood_score) /\ CountOf(MeaningfulWords(e.text), W_semya) = 2
  /\ \E e \in BagToSet(UserEntries(entries, last.user)) : IsNone(e.mood_score)
  /\ \E r \in UserCorrelations(correlations, last.user) : r.word = W_semya /\ r.count = 5



------------------------------------------------------------------------------
(* SpecScore: analyze_text_sentiment applied to a text and a mood value *)

\* The mood value of a label, None when the entry has no label
ValueOfTag(tag) == IF tag = "" THEN None ELSE Some(MoodValue(tag))

\* A call analyze_text_sentiment(text, user_mood_value) about to be made
InitScore ==
  /\ InitDb
  /\ obs = [p \in UpdPairs |-> <<>>]
  /\ procs = [p \in Workers |-> Idle]
  /\ saves = 0
  /\ \E text \in ScoreTexts, tag \in Tags \cup {""}, analyzerFails \in BOOLEAN,
        blobFails \in BOOLEAN :
       last = [op |-> "call", text |-> text, value |-> ValueOfTag(tag),
               analyzerFails |-> analyzerFails, blobFails |-> blobFails]

\* The call returns
Score ==
  /\ last.op = "call"
  /\ last' = [op |-> "score", text |-> last.text, value |-> last.value,
              analyzerFails |-> last.analyzerFails, blobFails |-> last.blobFails,
              result |-> analyze_text_sentiment(last.text, last.value,
                                                last.analyzerFails, last.blobFails)]
  /\ UNCHANGED <<entries, keywords, correlations, obs, procs, saves>>

NextScore == Score

SpecScore == InitScore /\ [][NextScore]_vars

\* C5: every score analyze_text_sentiment produces lies in [-10, 10], for
\* every text and every mood value of the label set or none, the value of the
\* failure fallback included.
C5_ScoreInRange ==
  last.op = "score" =>
    RLe(FromInt(-SCORE_MAX), last.result) /\ RLe(last.result, FromInt(SCORE_MAX))

\* The fallback has returned the lowest mood value of the label set.
C5_Witness ==
  /\ last.op = "score"
  /\ last.analyzerFails
  /\ last.value = Some(MoodValue("terrible"))
  /\ last.result = FromInt(-SCORE_MAX)



------------------------------------------------------------------------------
(* SpecConc: requests of two workers interleaved.  The code opens no       *)
(* transaction and takes no lock, so every query of an update and of a     *)
(* recalculation is a step of its own.                                     *)

MaxTasks == 3    \* updates and recalculations begun in a run of SpecConc

\* The scores the concurrent updates bring: of save() and of the handler
ConcScores(fn) == IF fn = "model" THEN UpdScores ELSE {Rat(1, 5)}

InitConc ==
  /\ obs = [p \in UpdPairs |-> <<>>]
  /\ procs = [p \in Workers |-> Idle]
  /\ last = [op |-> "init"]
  /\ saves = 0
  /\ entries = DiaryInUse.entries
  /\ keywords = DiaryInUse.keywords
  /\ correlations = DiaryInUse.correlations

\* _update_correlation or update_mood_correlation is entered: the keyword is
\* looked up or created.
BeginUpdate(p, fn, u, w, s, inc) ==
  /\ procs[p].pc = "idle"
  /\ saves < MaxTasks
  /\ keywords' = KeywordGetOrCreate(keywords, w,
                   IF fn = "model" THEN ModelCategory(w) ELSE SignalCategory(w))
  /\ procs' = [procs EXCEPT ![p] = [pc |-> "select", held |-> {}, fn |-> fn, user |-> u,
                                     word |-> w, score |-> s, inc |-> inc]]
  /\ Observe(fn, u, w, s, inc)
  /\ saves' = saves + 1
  /\ UNCHANGED <<entries, correlations, last>>

\* The request now holds the row it has read.
Holding(t, r, pc) ==
  [pc |-> pc, held |-> {r.id}, fn |-> t.fn, user |-> t.user, word |-> t.word,
   score |-> t.score, inc |-> t.inc, row |-> r]

\* get_or_create: the SELECT
Select(p) ==
  /\ procs[p].pc = "select"
  /\ LET t == procs[p]
         rows == CorrRows(correlations, t.user, t.word)
     IN  IF rows = {}
         THEN procs' = [procs EXCEPT ![p].pc = "insert"]
         ELSE \E r \in rows : procs' = [procs EXCEPT ![p] = Holding(t, r, "save")]
  /\ UNCHANGED <<entries, keywords, correlations, obs, last, saves>>

\* get_or_create: the INSERT of the defaults; the unique constraint refuses
\* a second row of the pair with an IntegrityError.
Insert(p) ==
  /\ procs[p].pc = "insert"
  /\ LET t == procs[p]
     IN  IF UniqueTogether(correlations, t.user, t.word)
         THEN /\ correlations' = correlations \cup
                   {NewCorrelation(correlations, t.user, t.word, t.score, t.inc)}
              /\ procs' = [procs EXCEPT ![p] = Idle]
         ELSE /\ procs' = [procs EXCEPT ![p].pc = "reget"]
              /\ UNCHANGED correlations
  /\ UNCHANGED <<entries, keywords, obs, last, saves>>

\* get_or_create after the IntegrityError: the SELECT again; without a row
\* the error is raised, and the except clause of the caller ends the update.
Reget(p) ==
  /\ procs[p].pc = "reget"
  /\ LET t == procs[p]
         rows == CorrRows(correlations, t.user, t.word)
     IN  IF rows = {}
         THEN procs' = [procs EXCEPT ![p] = Idle]
         ELSE \E r \in rows : procs' = [procs EXCEPT ![p] = Holding(t, r, "save")]
  /\ UNCHANGED <<entries, keywords, correlations, obs, last, saves>>

\* correlation.save() with the values computed from the row as it was read:
\* UPDATE by primary key, INSERT when no row has the key.
SaveRow(p) ==
  /\ procs[p].pc = "save"
  /\ LET t == procs[p]
         nv == IF t.fn = "model" THEN ModelCombine(t.row, t.score, t.inc)
               ELSE SignalCombine(t.row, t.score, t.inc)
         new == WithValues(t.row, nv)
     IN  IF \E x \in correlations : x.id = t.row.id
         THEN correlations' = {x \in correlations : x.id /= t.row.id} \cup {new}
         ELSE IF UniqueTogether(correlations, t.user, t.word)
         THEN correlations' = correlations \cup {new}
         ELSE UNCHANGED correlations
  /\ procs' = [procs EXCEPT ![p] = Idle]
  /\ UNCHANGED <<entries, keywords, obs, last, saves>>

\* recalculate_user_correlations is entered:
\* MoodCorrelation.objects.filter(user=user).delete()
BeginRecalc(p, u) ==
  /\ procs[p].pc = "idle"
  /\ saves < MaxTasks
  /\ correlations' = {r \in correlations : r.user /= u}
  /\ procs' = [procs EXCEPT ![p] = [pc |-> "gather", held |-> {}, user |-> u]]
  /\ obs' = [q \in UpdPairs |->
               IF q[1] = u
               THEN Append(obs[q], [fn |-> "recalculate", score |-> FromInt(0), inc |-> 0])
               ELSE obs[q]]
  /\ saves' = saves + 1
  /\ UNCHANGED <<entries, keywords, last>>

\* The gate and the loop over the entries
RecalcGather(p) ==
  /\ procs[p].pc = "gather"
  /\ LET u == procs[p].user
         es == UserEntries(entries, u)
         todo == PlannedRows(WordStats(EntryList(es), <<>>))
     IN  IF TooFewEntries(es) \/ todo = {}
         THEN procs' = [procs EXCEPT ![p] = Idle]
         ELSE procs' = [procs EXCEPT ![p] = [pc |-> "create", held |-> {}, user |-> u,
                                             todo |-> todo]]
  /\ UNCHANGED <<entries, keywords, correlations, obs, last, saves>>

\* One turn of the creation loop; an IntegrityError of objects.create is
\* caught nowhere and ends the recalculation.
RecalcCreate(p) ==
  /\ procs[p].pc = "create"
  /\ LET u == procs[p].user
         pr == CHOOSE x \in procs[p].todo : TRUE
         rest == procs[p].todo \ {pr}
     IN  IF UniqueTogether(correlations, u, pr.word)
         THEN /\ SetDb(CreateCorrelation(Db, u, pr))
              /\ procs' = [procs EXCEPT ![p] =
                             IF rest = {} THEN Idle
                             ELSE [pc |-> "create", held |-> {}, user |-> u, todo |-> rest]]
         ELSE /\ keywords' = KeywordGetOrCreate(keywords, pr.word, SignalCategory(pr.word))
              /\ procs' = [procs EXCEPT ![p] = Idle]
              /\ UNCHANGED <<entries, correlations>>
  /\ UNCHANGED <<obs, last, saves>>

NextConc ==
  \/ \E p \in Workers, fn \in {"model", "signal"}, q \in UpdPairs, inc \in Incs :
       \E s \in ConcScores(fn) : BeginUpdate(p, fn, q[1], q[2], s, inc)
  \/ \E p \in Workers : Select(p)
  \/ \E p \in Workers : Insert(p)
  \/ \E p \in Workers : Reget(p)
  \/ \E p \in Workers : SaveRow(p)
  \/ \E p \in Workers, u \in Users : BeginRecalc(p, u)
  \/ \E p \in Workers : RecalcGather(p)
  \/ \E p \in Workers : RecalcCreate(p)

SpecConc == InitConc /\ [][NextConc]_vars



------------------------------------------------------------------------------
(* Properties of SpecConc *)

AllIdle == \A p \in Workers : procs[p].pc = "idle"

\* The row of the pair in the database SpecConc starts from
InitialRow(q) == CHOOSE r \in CorrRows(DiaryInUse.correlations, q[1], q[2]) : TRUE

\* The score and the count of the claim for a pair whose row held (score,
\* count) before the updates of history h: the weighted mean of all of them
MeanWith(r, h) ==
  [score |-> RDiv(RAdd(RMul(r.score, FromInt(r.count)), SumWeighted(h)),
                  FromInt(r.count + SumWeights(h))),
   count |-> r.count + SumWeights(h)]

\* C2: when saves of one user run concurrently and update a word whose
\* correlation exists with count c, then after every interleaving of their
\* steps the count is c plus the increments of all of them and the score is
\* the weighted mean that includes every observation.  Stated for the updates
\* of save(), each of which alone keeps the weighted mean.
C2_NoLostUpdate ==
  \A q \in UpdPairs :
    (/\ AllIdle
     /\ CorrRows(DiaryInUse.correlations, q[1], q[2]) /= {}
     /\ \A i \in DOMAIN obs[q] : obs[q][i].fn = "model")
    => /\ CorrRows(correlations, q[1], q[2]) /= {}
       /\ RowOf(q).count = MeanWith(InitialRow(q), obs[q]).count
       /\ RowOf(q).score = MeanWith(InitialRow(q), obs[q]).score

\* C3: in every reachable state, whatever saves, incremental updates and
\* recalculations have run or are running, there is at most one correlation
\* per (user, keyword) pair.
C3_UniquePerPair ==
  \A r1, r2 \in correlations :
    (r1.user = r2.user /\ r1.word = r2.word) => r1 = r2

\* A request whose INSERT the constraint refused finds the row of the
\* request that won, while a third request has run a recalculation.
C3_Witness ==
  /\ \E p \in Workers :
       /\ procs[p].pc = "reget"
       /\ CorrRows(correlations, procs[p].user, procs[p].word) /= {}
  /\ \E q \in UpdPairs : \E i \in DOMAIN obs[q] : obs[q][i].fn = "recalculate"

\* C11: recalculate(user) run twice in a row, with no entry created, edited
\* or deleted in between, leaves the same set of (word, score, count) after
\* the second run as after the first.
C11_RecalculationIdempotent ==
  [][\A u \in Users :
       (Recalculate(u) /\ last.op = "recalculate" /\ last.user = u)
         => UserCorrelations(correlations', u) = UserCorrelations(correlations, u)]_vars

\* The second of two runs in a row has left the user a correlation.
C11_Witness ==
  /\ last.op = "recalculate"
  /\ last.run = 2
  /\ UserCorrelations(correlations, last.user) /= {}

------------------------------------------------------------------------------
(* SpecWork: a new diary whose entries all speak of work *)

InitWork ==
  /\ InitDb
  /\ obs = [p \in UpdPairs |-> <<>>]
  /\ procs = [p \in Workers |-> Idle]
  /\ last = [op |-> "init"]
  /\ saves = 0

NextWork ==
  \/ \E u \in Users, text \in WorkTexts, tag \in EntryTags, blobFails \in BOOLEAN :
       CreateEntry(u, text, tag, blobFails)
  \/ \E u \in Users : Recalculate(u)

SpecWork == InitWork /\ [][NextWork]_vars

\* The word stands in the text as written
Mentions(text, w) == \E i \in DOMAIN Split(Lower(text)) : Split(Lower(text))[i] = w

\* The user's correlations for a word
CorrelationsFor(rows, u, w) == {r \in UserCorrelations(rows, u) : r.word = w}

\* C12: after recalculate for a user whose only scored entry contains
\* 'работа' there is no correlation for it; after recalculate for a user with
\* exactly two scored entries that both contain 'работа' there is exactly one
\* correlation for it, its score the mean of the two scores and its count 2.
C12_WorkScenario ==
  LET u == last.user
      q == Qualifying(entries, u)
  IN  (/\ last.op = "recalculate"
       /\ BagCardinality(UserEntries(entries, u)) = Len(q)
       /\ \A i \in DOMAIN q : Mentions(q[i].text, W_rabota))
      => /\ Len(q) = 1 => CorrelationsFor(correlations, u, W_rabota) = {}
         /\ Len(q) = 2 =>
              CorrelationsFor(correlations, u, W_rabota) =
                {[word |-> W_rabota,
                  score |-> RDiv(RAdd(q[1].mood_score, q[2].mood_score), FromInt(2)),
                  count |-> 2]}

------------------------------------------------------------------------------
(* Properties of SpecScore: negation, intensifier, neutral text *)

Sign(x) == IF x[1] > 0 THEN 1 ELSE IF x[1] < 0 THEN -1 ELSE 0

\* 'хорошо' with a word of the negation list immediately before it
NegatedFine == {n \o <<" ">> \o T_fine : n \in negations}

\* The score of 'хорошо' alone under the conditions of the call that returned
FineAlone == analyze_text_sentiment(T_fine, last.value, last.analyzerFails, last.blobFails)

\* C13: with 'хорошо' positive in the lexicon, the score of a negation word
\* followed by 'хорошо' has the sign opposite to the score of 'хорошо' alone,
\* for 'не' and for every other word of the negation list.
C13_NegationInverts ==
  (/\ last.op = "score"
   /\ last.text \in NegatedFine
   /\ IsNone(last.value)
   /\ ~last.analyzerFails)
  => /\ Sign(FineAlone) = 1
     /\ Sign(last.result) = -1

\* C14: the score of 'очень хорошо' is positive and strictly larger than the
\* score of 'хорошо' alone.
C14_IntensifierAmplifies ==
  (/\ last.op = "score"
   /\ last.text = T_very_fine
   /\ IsNone(last.value)
   /\ ~last.analyzerFails)
  => /\ RLt(FromInt(0), last.result)
     /\ RLt(FineAlone, last.result)

\* No token of the text is a word of the lexicon: none is positive or
\* negative, an intensifier or a negation.
NoLexiconToken(text) ==
  LET tokens == tokenize(preprocess_text(text))
  IN  \A i \in DOMAIN tokens :
        /\ LexiconWeight(stem_word(tokens[i])) = FromInt(0)
        /\ tokens[i] \notin intensifiers \cup negations

\* The text shows none of the emotional surface patterns.
NoSurfacePattern(text) ==
  /\ CountRuns(text, {"!"}, 2) = 0
  /\ CountRuns(text, {"?"}, 2) = 0
  /\ CountRuns(text, {"."}, 3) = 0
  /\ CountRuns(text, UpperChars, 4) = 0
  /\ CountRuns(text, HEARTS \cup POSITIVE_EMOJI \cup NEGATIVE_EMOJI, 1) = 0

\* C15: a text with no lexicon-matching token and no emotional surface
\* pattern, scored without a user mood value, has the score 0.
C15_NeutralWithoutSignal ==
  (/\ last.op = "score"
   /\ IsNone(last.value)
   /\ NoLexiconToken(last.text)
   /\ NoSurfacePattern(last.text))
  => last.result = FromInt(0)

------------------------------------------------------------------------------
(* Properties of SpecConc: the occurrence count *)

\* C19: between two full recalculations the occurrence_count of a
\* correlation never decreases and the record is not removed: a step that
\* is not the deletion of a recalculation leaves every (user, keyword) a
\* record whose count is at least what it was.
C19_CountNeverDecreases ==
  [][(~ \E p \in Workers, u \in Users : BeginRecalc(p, u))
       => \A r \in correlations :
            \E x \in correlations' :
              x.user = r.user /\ x.word = r.word /\ x.count >= r.count]_vars

------------------------------------------------------------------------------
(* Properties of Spec: deletion *)

\* C20: deleting an entry leaves every correlation and every keyword as it
\* was: the same records with the same scores and counts.
C20_DeleteLeavesCorrelations ==
  [][\A e \in BagToSet(entries) :
       DeleteEntry(e) => correlations' = correlations /\ keywords' = keywords]_vars

\* The last entry of a user has been deleted and the correlations its save
\* made are still there.
C20_Witness ==
  /\ last.op = "delete"
  /\ UserEntries(entries, last.user) = EmptyBag
  /\ UserCorrelations(correlations, last.user) /= {}
  /\ keywords /= {}

------------------------------------------------------------------------------
(* SpecLoad: AdvancedRussianSentimentAnalyzer._load_wordlist, applied to a *)
(* word-list file of the data directory in the state it may be found in    *)

MaxLines == 2    \* lines of a word-list file

Files == {"positive_ru.txt", "negative_ru.txt", "intensifiers_ru.txt", "negations_ru.txt"}

\* _get_default_words(filename)
_get_default_words(filename) ==
  CASE filename = "positive_ru.txt" -> DEFAULT_POSITIVE
    [] filename = "negative_ru.txt" -> DEFAULT_NEGATIVE
    [] filename = "intensifiers_ru.txt" -> DEFAULT_INTENSIFIERS
    [] filename = "negations_ru.txt" -> DEFAULT_NEGATIONS
    [] OTHER -> {}

\* Lines a file may hold: a blank line, a comment, ' Хорошо ', 'плох'
FileLines ==
  {<<>>, <<"#", " ", "h">>, <<" ", "H", "o", "r", "o", "sh", "o", " ">>,
   <<"p", "l", "o", "h">>}

\* What open(filepath) may find: no file, a file that cannot be read (no
\* permission, bytes that are not UTF-8), or a file with its lines
Resources ==
  {[kind |-> "missing"], [kind |-> "unreadable"]}
    \cup {[kind |-> "file", lines |-> ls] :
            ls \in UNION {[1..n -> FileLines] : n \in 0..MaxLines}}

\* word = line.strip().lower(), kept if word and not word.startswith('#')
WordsOfLines(lines) ==
  LET Word(i) == Lower(Strip(lines[i]))
  IN  {Word(i) : i \in {j \in DOMAIN lines : Word(j) /= <<>> /\ Word(j)[1] /= "#"}}

\* _load_wordlist(filename): the set it returns, or the exception that
\* leaves it.  Only FileNotFoundError is caught.
_load_wordlist(filename, resource) ==
  CASE resource.kind = "missing" -> [raised |-> FALSE, words |-> _get_default_words(filename)]
    [] resource.kind = "unreadable" -> [raised |-> TRUE, words |-> {}]
    [] OTHER -> [raised |-> FALSE, words |-> WordsOfLines(resource.lines)]

\* A word list is about to be loaded
InitLoad ==
  /\ InitDb
  /\ obs = [p \in UpdPairs |-> <<>>]
  /\ procs = [p \in Workers |-> Idle]
  /\ saves = 0
  /\ \E filename \in Files, resource \in Resources :
       last = [op |-> "open", filename |-> filename, resource |-> resource]

\* self._load_wordlist(filename) returns or raises
Load ==
  /\ last.op = "open"
  /\ last' = [op |-> "loaded", filename |-> last.filename, resource |-> last.resource,
              outcome |-> _load_wordlist(last.filename, last.resource)]
  /\ UNCHANGED <<entries, keywords, correlations, obs, procs, saves>>

NextLoad == Load

SpecLoad == InitLoad /\ [][NextLoad]_vars

\* C18: loading the word list of a known category never fails and never
\* returns an empty set: when the file is missing, cannot be read or yields
\* no words, the built-in default set of the category is returned.
C18_LoadNeverFailsNorEmpty ==
  last.op = "loaded" =>
    /\ ~last.outcome.raised
    /\ last.outcome.words /= {}
    /\ (\/ last.resource.kind /= "file"
        \/ WordsOfLines(last.resource.lines) = {})
         => last.outcome.words = _get_default_words(last.filename)

------------------------------------------------------------------------------
(* SpecFail: entry saves during which one step of the analysis raises *)

\* The step that raises during a save: none; analyze_russian_sentiment
\* (scoring); extract_keywords in step 4 of save() (keywords); every write of
\* a MoodCorrelation by an incremental update (update), or every such write
\* for the word FailWord only (update_word); the recalculation that the
\* second receiver starts (recalculation)
Faults == {"none", "scoring", "keywords", "update", "update_word", "recalculation"}

\* the word whose correlation cannot be written under update_word
FailWord == W_semya

\* get_or_create or save of the MoodCorrelation of word raises
WriteFails(fault, word) == fault = "update" \/ (fault = "update_word" /\ word = FailWord)

\* user_mood_tag of the entries of SpecFail: none, or 'good'
FailTags == {"", "good"}

\* step 3 of save() when the failure of the analysis leaves no score
ScoreOnSaveNone(inst, user_mood_value, fault, blobFails) ==
  IF inst.text /= <<>> /\ Len(Strip(inst.text)) >= SAVE_MIN_TEXT
  THEN IF fault = "scoring" THEN None
       ELSE analyze_text_sentiment(inst.text, user_mood_value, FALSE, blobFails)
  ELSE inst.mood_score

\* Step 3 of save(), where analyze_russian_sentiment may raise inside
\* analyze_text_sentiment
ScoreOnSave(inst, user_mood_value, fault, blobFails) ==
  IF inst.text /= <<>> /\ Len(Strip(inst.text)) >= SAVE_MIN_TEXT
  THEN analyze_text_sentiment(inst.text, user_mood_value, fault = "scoring", blobFails)
  ELSE inst.mood_score

RECURSIVE SignalLoopWith(_, _, _, _, _)
\* The loop of analyze_diary_entry: update_mood_correlation catches the
\* failure of its write, so the word's keyword is still looked up or created
\* and the loop goes on with the next word
SignalLoopWith(d, u, items, s, fault) ==
  IF items = <<>> THEN d
  ELSE SignalLoopWith(
         IF WriteFails(fault, Head(items).word)
         THEN [d EXCEPT !.keywords =
                 KeywordGetOrCreate(@, Head(items).word, SignalCategory(Head(items).word))]
         ELSE SignalUpdateCorrelation(d, u, Head(items).word, s, Head(items).count),
         u, Tail(items), s, fault)

\* analyze_diary_entry during a save with the given failure
AnalyzeWith(d, e, blobFails, fault) ==
  IF fault \in {"update", "update_word"} /\ ~blobFails
  THEN LET mood_score == Polarity(e.text)
           stored == [e EXCEPT !.mood_score = mood_score, !.word_count = Len(Split(e.text))]
           d1 == [d EXCEPT !.entries = (@ (-) SetToBag({e})) (+) SetToBag({stored})]
       IN  [db |-> SignalLoopWith(d1, e.user, SignificantWords(MeaningfulWords(e.text)),
                                  mood_score, fault),
            mood_score |-> mood_score]
  ELSE analyze_diary_entry(d, e, blobFails)

\* recalculate_all_correlations during a save with the given failure: it
\* has no except clause, so what recalculate_user_correlations raises (here
\* on its first statement, the deletion) leaves the receiver
RecalculateWith(d, u, fault) ==
  LET user_entries_count == BagCardinality(UserEntries(d.entries, u))
  IN  IF /\ fault = "recalculation"
         /\ user_entries_count >= RECALC_EVERY
         /\ user_entries_count % RECALC_EVERY = 0
      THEN [db |-> d, raised |-> TRUE]
      ELSE [db |-> recalculate_all_correlations(d, u), raised |-> FALSE]

RECURSIVE ModelLoopWith(_, _, _, _, _)
\* The loop of step 4: _update_correlation has no except clause, so the
\* failure of its write, after the word's keyword was looked up or created,
\* leaves the loop for the except clause of save()
ModelLoopWith(d, u, items, s, fault) ==
  IF items = <<>> THEN d
  ELSE IF WriteFails(fault, Head(items).word)
  THEN [d EXCEPT !.keywords =
          KeywordGetOrCreate(@, Head(items).word, ModelCategory(Head(items).word))]
  ELSE ModelLoopWith(
         IF Head(items).count >= 1
         THEN ModelUpdateCorrelation(d, u, Head(items).word, s, Head(items).count)
         ELSE d,
         u, Tail(items), s, fault)

\* Step 4 of save() with the given failure.  extract_keywords raising leaves
\* the try block at once.
KeywordStepWith(d, row, mood_score, fault) ==
  IF row.text = <<>> \/ IsNone(mood_score) \/ fault = "keywords" THEN d
  ELSE IF fault \in {"update", "update_word"}
       THEN ModelLoopWith(d, row.user, CounterItems(Keywords(row.text)), mood_score, fault)
       ELSE KeywordStep(d, row, mood_score)

\* Step 4 after the second receiver, unless that receiver raised
StepFourWith(recalculated, row, mood_score, fault) ==
  [row |-> row, raised |-> recalculated.raised,
   db |-> IF recalculated.raised THEN recalculated.db
          ELSE KeywordStepWith(recalculated.db, row, mood_score, fault)]

\* The second receiver and step 4, after analyze_diary_entry has returned
AfterAnalysisWith(analysed, row, fault) ==
  StepFourWith(RecalculateWith(analysed.db, row.user, fault), row, analysed.mood_score, fault)

\* super().save() of a new row: the row is written and post_save runs its
\* receivers; then step 4
WriteWith(d, row, blobFails, fault) ==
  AfterAnalysisWith(
    AnalyzeWith([d EXCEPT !.entries = @ (+) SetToBag({row})], row, blobFails, fault),
    row, fault)

\* The fields super().save() writes
RowWith(inst, user_mood_value, blobFails, fault) ==
  [inst EXCEPT !.value = user_mood_value,
               !.word_count = IF inst.text /= <<>> THEN Len(Split(inst.text)) ELSE 0,
               !.mood_score = ScoreOnSave(inst, user_mood_value, fault, blobFails)]

\* DiaryEntry.save() of a new instance with the given failure: the row
\* super().save() writes, the database afterwards, and whether save() raised
SaveWith(d, inst, blobFails, fault) ==
  WriteWith(d, RowWith(inst, ValueToSave(inst), blobFails, fault), blobFails, fault)

\* The request ends: the tables and the history after the save
SaveEnds(u, fault, outcome) ==
  /\ SetDb(outcome.db)
  /\ last' = [op |-> "save", user |-> u, fault |-> fault,
              before |-> BagCardinality(entries),
              row |-> outcome.row, raised |-> outcome.raised]

\* A new entry is saved while the given step fails
FaultySave(u, text, tag, blobFails, fault) ==
  /\ saves < MaxSaves
  /\ SaveEnds(u, fault, SaveWith(Db, NewInstance(u, text, tag), blobFails, fault))
  /\ saves' = saves + 1
  /\ UNCHANGED <<obs, procs>>

InitFail == InitSpec

NextFail ==
  \E u \in Users, text \in Texts, tag \in FailTags, blobFails \in BOOLEAN, fault \in Faults :
    FaultySave(u, text, tag, blobFails, fault)

SpecFail == InitFail /\ [][NextFail]_vars

\* C16: whichever analysis step fails during an entry save (scoring, keyword
\* extraction, an incremental correlation update, the recalculation the save
\* triggers), save() returns without raising and the entry is persisted.
C16_NoFailureBlocksSave ==
  last.op = "save" =>
    /\ ~last.raised
    /\ BagCardinality(entries) = last.before + 1

------------------------------------------------------------------------------
(* Claims on the order of two updates of one row, under SpecUpd *)

\* The (score, count) of row r after the update (s1, i1) and then (s2, i2),
\* both by DiaryEntry._update_correlation
ModelTwice(r, s1, i1, s2, i2) ==
  ModelCombine(WithValues(r, ModelCombine(r, s1, i1)), s2, i2)

\* The same two updates, both by update_mood_correlation
SignalTwice(r, s1, i1, s2, i2) ==
  SignalCombine(WithValues(r, SignalCombine(r, s1, i1)), s2, i2)

\* C21: two updates (s1, w1) and (s2, w2) of the same correlation give the
\* same score and the same count in either order, by either update function.
C21_OrderIndependent ==
  \A r \in correlations, s1, s2 \in PolScores, i1, i2 \in Incs :
    /\ ModelTwice(r, s1, i1, s2, i2) = ModelTwice(r, s2, i2, s1, i1)
    /\ SignalTwice(r, s1, i1, s2, i2) = SignalTwice(r, s2, i2, s1, i1)

------------------------------------------------------------------------------
(* SpecEdit: entries created and edited through the form, which sets the  *)
(* text and the mood label                                                 *)

\* user_mood_tag choices offered in SpecEdit
EditTags == {"good", "neutral", "bad"}

\* the text of the entries of SpecEdit
EditTexts == {T_family_good}

InitEdit == InitSpec

NextEdit ==
  \/ \E u \in Users, text \in EditTexts, tag \in EditTags, blobFails \in BOOLEAN :
       CreateEntry(u, text, tag, blobFails)
  \/ \E e \in BagToSet(entries), text \in EditTexts, tag \in EditTags, blobFails \in BOOLEAN :
       EditEntry(e, text, tag, blobFails)

SpecEdit == InitEdit /\ [][NextEdit]_vars

\* C22: after every save of an entry, creation or edit, the entry's
\* user_mood_value is the value MOOD_VALUES maps its current label to.
C22_ValueFollowsLabel ==
  \A e \in BagToSet(entries) : e.value = Some(MoodValue(e.tag))

------------------------------------------------------------------------------
(* The combination step of analyze_sentiment, under SpecScore *)

\* len(sentiment_words) after the loop of analyze_sentiment over the text
SentimentWordCount(text) == Walk(tokenize(preprocess_text(text)), 1, FromInt(0), 0).n

\* The pattern contribution to the score of a text: _analyze_patterns of
\* the preprocessed text, clamped and rounded as the result is
PatternContribution(text) ==
  RoundTo(Clamp(FromInt(-SCORE_MAX), FromInt(SCORE_MAX),
                _analyze_patterns(preprocess_text(text))), 100)

\* C23: the analyzer's score of a text without a sentiment-bearing token is
\* the pattern contribution, so it is not 0 when the text shows an emotional
\* surface pattern.
C23_PatternAddedAfterAveraging ==
  (/\ last.op = "score"
   /\ Len(Strip(last.text)) >= ANALYZER_MIN_TEXT
   /\ SentimentWordCount(last.text) = 0)
  => /\ RussianScore(last.text) = PatternContribution(last.text)
     /\ PatternContribution(last.text) /= FromInt(0) => RussianScore(last.text) /= FromInt(0)

\* The keywords step 4 of save() updates for a text
KeywordsOf(text) == {Keywords(text)[i] : i \in DOMAIN Keywords(text)}

\* C24: when the correlation update of one word of an entry fails, the
\* updates of the other words of the entry are still applied, so each of
\* them has its correlation afterwards, and the save is not aborted.
C24_OnlyFailingWordSkipped ==
  (/\ last.op = "save"
   /\ last.fault = "update_word"
   /\ Len(Strip(last.row.text)) >= SAVE_MIN_TEXT
   /\ FailWord \in KeywordsOf(last.row.text))
  => /\ ~last.raised
     /\ BagCardinality(entries) = last.before + 1
     /\ \A w \in KeywordsOf(last.row.text) \ {FailWord} :
          CorrRows(correlations, last.user, w) /= {}

------------------------------------------------------------------------------
(* SpecKw: entry saves and recalculations, with the keyword categories     *)
(* edited by hand in the admin list of ExtractedKeyword                    *)

\* the texts of the entries of SpecKw; each has the keyword 'семья'
KwTexts == {T_family_good, T_family_fine}

\* the categories an administrator sets by hand
ManualCategories == {"work"}

\* ExtractedKeywordAdmin: list_editable = ('category',)
EditCategory(k, category) ==
  /\ k.category /= category
  /\ keywords' = (keywords \ {k}) \cup {[k EXCEPT !.category = category]}
  /\ last' = [op |-> "category", user |-> "admin"]
  /\ UNCHANGED <<entries, correlations, obs, procs, saves>>

InitKw == InitSpec

NextKw ==
  \/ \E u \in Users, text \in KwTexts, tag \in EntryTags, blobFails \in BOOLEAN :
       CreateEntry(u, text, tag, blobFails)
  \/ \E e \in BagToSet(entries), text \in KwTexts, tag \in EntryTags, blobFails \in BOOLEAN :
       EditEntry(e, text, tag, blobFails)
  \/ \E u \in Users : Recalculate(u)
  \/ \E k \in keywords, category \in ManualCategories : EditCategory(k, category)

SpecKw == InitKw /\ [][NextKw]_vars

\* C25: no entry save and no recalculation changes the category of a keyword
\* that exists, whether the code assigned it or an administrator set it:
\* every keyword row is still there, as it was, after the step.
C25_CategoryOnlyAtCreation ==
  [][last'.op /= "category" => \A k \in keywords : k \in keywords']_vars

\* An entry with the keyword 'семья' has just been saved, and the keyword
\* carries the category set by hand.
C25_Witness ==
  /\ last.op \in {"create", "edit"}
  /\ \E k \in keywords :
       /\ k.word = W_semya
       /\ k.category \in ManualCategories
       /\ k.category /= SignalCategory(k.word)
       /\ k.category /= ModelCategory(k.word)
  /\ \A e \in BagToSet(entries) : W_semya \in {Keywords(e.text)[i] : i \in DOMAIN Keywords(e.text)}

\* C26: after a save in which nothing fails, the stored entry carries the
\* mood_score save() computed with analyze_text_sentiment and handed to
\* super().save(): no receiver has replaced it.
C26_StoredScoreIsSaveScore ==
  (/\ last.op = "save"
   /\ last.fault = "none"
   /\ Len(Strip(last.row.text)) >= SAVE_MIN_TEXT)
  => \E e \in BagToSet(entries) :
       /\ e.user = last.user
       /\ e.text = last.row.text
       /\ e.mood_score = last.row.mood_score

\* The number of times word occurs among the keywords of a text
Occurrences(text, word) ==
  Cardinality({i \in DOMAIN Keywords(text) : Keywords(text)[i] = word})

\* The occurrence_count of the correlation of (u, w), 0 when there is none
OccurrenceCount(rows, u, w) ==
  IF CorrRows(rows, u, w) = {} THEN 0
  ELSE (CHOOSE r \in CorrRows(rows, u, w) : TRUE).count

\* C27: the save of a new entry in which a word occurs exactly once adds
\* exactly 1 to the occurrence_count of the word's correlation for the user,
\* which is created with count 1 when there was none.
C27_OneOccurrenceCountsOnce ==
  [][\A u \in Users, text \in Texts, tag \in EntryTags, blobFails \in BOOLEAN :
       (/\ CreateEntry(u, text, tag, blobFails)
        /\ BagCardinality(UserEntries(entries', u)) % RECALC_EVERY /= 0)
         => \A w \in {W_semya, W_otpusk} :
              Occurrences(text, w) = 1
                => OccurrenceCount(correlations', u, w) = OccurrenceCount(correlations, u, w) + 1]_vars

\* C28: right after a save that sets off the periodic recalculation (the
\* user then has a positive multiple of 5 entries) the user's correlations
\* are what the recalculation yields over the stored entries.
C28_AfterTriggeringSave ==
  (/\ last.op \in {"create", "edit"}
   /\ BagCardinality(UserEntries(entries, last.user)) >= RECALC_EVERY
   /\ BagCardinality(UserEntries(entries, last.user)) % RECALC_EVERY = 0)
  => UserCorrelations(correlations, last.user) = ExpectedCorrelations(entries, last.user)

------------------------------------------------------------------------------
(* Properties of SpecConc: a recalculation beside an update *)

\* The update c of the pair (u, W_semya) made on the database d as one call
UpdateAlone(d, u, c) ==
  IF c.fn = "model" THEN ModelUpdateCorrelation(d, u, W_semya, c.score, c.inc)
  ELSE SignalUpdateCorrelation(d, u, W_semya, c.score, c.inc)

\* The user's correlations after the update and then the recalculation, and
\* after the recalculation and then the update, from the database SpecConc
\* starts from
SerialOutcomes(u, c) ==
  {UserCorrelations(
     recalculate_user_correlations(UpdateAlone(DiaryInUse, u, c), u).correlations, u),
   UserCorrelations(
     UpdateAlone(recalculate_user_correlations(DiaryInUse, u), u, c).correlations, u)}

\* The run so far is one update by _update_correlation and one
\* recalculation, both for user u and both finished; c is the update
OneUpdateOneRecalc(u, c) ==
  /\ AllIdle
  /\ saves = 2
  /\ Len(obs[<<u, W_semya>>]) = 2
  /\ \E i, j \in 1..2 :
       /\ obs[<<u, W_semya>>][i] = c
       /\ c.fn = "model"
       /\ obs[<<u, W_semya>>][j].fn = "recalculate"

\* C29: when a recalculation and an incremental update of the same user
\* have run interleaved, the user's correlations are those of one of the two
\* orders in which the two could have run one after the other.
C29_SerialOutcome ==
  \A u \in Users, s \in UpdScores, inc \in Incs :
    OneUpdateOneRecalc(u, [fn |-> "model", score |-> s, inc |-> inc])
      => UserCorrelations(correlations, u)
           \in SerialOutcomes(u, [fn |-> "model", score |-> s, inc |-> inc])

------------------------------------------------------------------------------
(* Properties of Spec: an entry saved again *)

\* C30: saving an existing entry again with its text and its mood label
\* unchanged leaves the score and the occurrence_count of every correlation
\* as they were.
C30_ResaveChangesNothing ==
  [][\A e \in BagToSet(entries), blobFails \in BOOLEAN :
       EditEntry(e, e.text, e.tag, blobFails)
         => \A u \in Users :
              UserCorrelations(correlations', u) = UserCorrelations(correlations, u)]_vars

==============================================================================
